---- MODULE Spec2Model ----
(***************************************************************************)
(* Destructor lowering of lib/SILGen/SILGenDestructor.cpp.                 *)
(*                                                                         *)
(* The emitters of the source are operators that build the emitted         *)
(* function (basic blocks of instructions) from a declaration; the state   *)
(* machine runs the emitted functions on a small heap of reference-counted *)
(* instances, and records every executed instruction in a log.             *)
(***************************************************************************)
EXTENDS Integers, Sequences, FiniteSets, TLC

VARIABLES decl,     \* the nominal type and its destructor declaration
          code,     \* the functions emitted for the declaration
          heap,     \* instances: reference count, life state, fields
          stack,    \* activations of emitted functions, innermost last
          jobs,     \* work submitted to the executor and not yet run
          status,   \* "start", "running", "trapped"
          log,      \* executed instructions, oldest first
          saved     \* the run in progress and the outcome of the run before

vars == <<decl, code, heap, stack, jobs, status, log, saved>>

\* ------------------------------------------------------------------ bounds
MaxFields == 2      \* stored properties written in a declaration
MaxChain == 3       \* instances in the heap
MaxCases == 2       \* elements of an enum

\* ------------------------------------------------------- declarations
\* A stored property: its base identifier, whether its type lowering is
\* trivial, a class reference or Optional<Self>, and whether it is
\* isolated to the actor instance.
Prop(n, t, i) == [name |-> n, ty |-> t, iso |-> i]

P_id == Prop("id", "nontrivial", FALSE)
P_actorSystem == Prop("actorSystem", "nontrivial", FALSE)
P_count == Prop("count", "trivial", TRUE)
P_payload == Prop("payload", "nontrivial", TRUE)
P_tag == Prop("tag", "nontrivial", FALSE)
P_next == Prop("next", "optSelf", TRUE)
P_prev == Prop("prev", "optSelf", TRUE)

PlainProps == {P_count, P_payload, P_tag, P_next, P_prev}
ActorProps == PlainProps \cup {P_id, P_actorSystem}

Range(s) == {s[i] : i \in DOMAIN s}

\* Property lists without a repeated name, at most n long; the second
\* Optional<Self> property of a class is the one named prev.
PropLists(S, n) ==
  {s \in UNION {[1..k -> S] : k \in 0..n} :
     /\ \A i, j \in DOMAIN s : s[i].name = s[j].name => i = j
     /\ P_prev \in Range(s) => P_next \in Range(s)}


\* ------------------------------------------------------- instructions
\* One emitted instruction: the operation, its qualifier, the storage it
\* works on ("self": a field of self, "link": a field of the instance held
\* in the working slot, "iter": the working slot, "value": the value-type
\* self, "payload": an enum payload), the field or case, and its targets.
Ins(op, q, base, fld) ==
  [op |-> op, q |-> q, base |-> base, fld |-> fld,
   t1 |-> "", t2 |-> "", cases |-> <<>>]

Op(op) == Ins(op, "", "", 0)
Br(l) == [Op("br") EXCEPT !.t1 = l]
CondBr(l1, l2) == [Op("cond_br") EXCEPT !.t1 = l1, !.t2 = l2]

\* The builder: the blocks of the function being emitted and the
\* insertion block.
NewFunction == [blocks |-> ("entry" :> <<>>), cur |-> "entry"]
createBasicBlock(b, l) == [b EXCEPT !.blocks = (l :> <<>>) @@ @]
emitBlock(b, l) == [b EXCEPT !.cur = l]
create(b, i) == [b EXCEPT !.blocks[b.cur] = Append(@, i)]
createAll(b, is) == [b EXCEPT !.blocks[b.cur] = @ \o is]

EnumBlockNames ==
  <<"enumBlock1", "enumBlock2", "enumBlock3", "enumBlock4",
    "enumBlock5", "enumBlock6", "enumBlock7", "enumBlock8">>

\* ------------------------------------------------------------ emitters
ClassMemberDestroy(i) ==
  << Ins("ref_element_addr", "", "self", i),
     Ins("begin_access", "deinit", "self", i),
     Ins("destroy_addr", "", "self", i),
     Ins("end_access", "", "self", i) >>

\* Variant: the triviality of the type is not tested.
destroyClassMember_Trivial(b, cd, i) == createAll(b, ClassMemberDestroy(i))

\* Variant: the member is destroyed outside an access region.
destroyClassMember_NoAccess(b, cd, i) ==
  IF cd.fields[i].ty # "trivial"
  THEN createAll(b, << Ins("ref_element_addr", "", "self", i),
                       Ins("destroy_addr", "", "self", i) >>)
  ELSE b

destroyClassMember(b, cd, i) ==
  IF cd.fields[i].ty # "trivial"
  THEN createAll(b, ClassMemberDestroy(i))
  ELSE b

OptionalSelfProps(cd) ==
  SelectSeq([i \in 1..Len(cd.fields) |-> i],
            LAMBDA i : cd.fields[i].ty = "optSelf")

\* Variant: the set is not cleared when it holds more than one property.
findRecursiveLinks_NoClear(cd) == OptionalSelfProps(cd)

findRecursiveLinks(cd) ==
  LET result == OptionalSelfProps(cd)
  IN IF Len(result) > 1 THEN <<>> ELSE result

\* emitRecursiveChainDestruction, with the ownership qualifiers of the
\* load and of the store of its unique block as parameters.
chainDestruction(b, cd, recursiveLink, loadQualifier, storeQualifier) ==
  LET b0 == createBasicBlock(createBasicBlock(createBasicBlock(
            createBasicBlock(createBasicBlock(createBasicBlock(b,
              "cleanBB"), "noneBB"), "notUniqueBB"), "uniqueBB"),
              "someBB"), "loopBB")
      \* var iter = self.link; self.link = nil
      b1 == createAll(b0,
              << Op("enum_none"),
                 Ins("ref_element_addr", "", "self", recursiveLink),
                 Ins("alloc_stack", "", "iter", 0),
                 Ins("begin_access", "modify", "self", recursiveLink),
                 Ins("load", "take", "self", recursiveLink),
                 Ins("store_none", "init", "self", recursiveLink),
                 Ins("end_access", "", "self", recursiveLink),
                 Ins("store", "init", "iter", 0),
                 Br("loopBB") >>)
      \* while iter != nil
      b2 == create(emitBlock(b1, "loopBB"),
              [Ins("switch_enum", "", "iter", 0)
                 EXCEPT !.t1 = "someBB", !.t2 = "noneBB"])
      \* if isKnownUniquelyReferenced(&iter)
      b3 == createAll(emitBlock(b2, "someBB"),
              << Ins("is_unique", "", "iter", 0),
                 CondBr("uniqueBB", "notUniqueBB") >>)
      \* let tail = iter.unsafelyUnwrapped.next; iter = tail
      b4 == createAll(emitBlock(b3, "uniqueBB"),
              << Ins("load_borrow", "", "iter", 0),
                 Op("unchecked_enum_data"),
                 Ins("ref_element_addr", "", "link", recursiveLink),
                 Ins("begin_access", "read", "link", recursiveLink),
                 Ins("load", loadQualifier, "link", recursiveLink),
                 Ins("end_access", "", "link", recursiveLink),
                 Ins("end_borrow", "", "iter", 0),
                 Ins("store", storeQualifier, "iter", 0),
                 Br("loopBB") >>)
      b5 == create(emitBlock(b4, "notUniqueBB"), Br("cleanBB"))
      b6 == create(emitBlock(b5, "noneBB"), Br("cleanBB"))
  IN createAll(emitBlock(b6, "cleanBB"),
       << Ins("destroy_addr", "", "iter", 0),
          Ins("dealloc_stack", "", "iter", 0) >>)

\* Variants: the next link is taken instead of copied; the working slot
\* is initialized instead of assigned.
emitRecursiveChainDestruction_Take(b, cd, recursiveLink) ==
  chainDestruction(b, cd, recursiveLink, "take", "assign")
emitRecursiveChainDestruction_Init(b, cd, recursiveLink) ==
  chainDestruction(b, cd, recursiveLink, "copy", "init")

\* Variant: the loop goes on whether or not the node is uniquely
\* referenced.
emitRecursiveChainDestruction_IgnoreUnique(b, cd, recursiveLink) ==
  LET b1 == chainDestruction(b, cd, recursiveLink, "copy", "assign")
  IN [b1 EXCEPT !.blocks["someBB"] =
        << Ins("is_unique", "", "iter", 0), CondBr("uniqueBB", "uniqueBB") >>]

\* Variant: the not-unique block destroys the working slot before it
\* branches to the cleanup.
emitRecursiveChainDestruction_EarlyDestroy(b, cd, recursiveLink) ==
  LET b1 == chainDestruction(b, cd, recursiveLink, "copy", "assign")
  IN [b1 EXCEPT !.blocks["notUniqueBB"] =
        << Ins("destroy_addr", "", "iter", 0), Br("cleanBB") >>]

\* Variant: the link is copied into the working slot instead of taken.
emitRecursiveChainDestruction_CopyFirst(b, cd, recursiveLink) ==
  LET b1 == chainDestruction(b, cd, recursiveLink, "copy", "assign")
      first == b.cur
  IN [b1 EXCEPT !.blocks[first] =
        [k \in DOMAIN @ |->
           IF @[k].op = "load" /\ @[k].q = "take"
           THEN [@[k] EXCEPT !.q = "copy"] ELSE @[k]]]

\* Variant: the reference is released while the borrow of the node is
\* open.
emitRecursiveChainDestruction_BorrowOpen(b, cd, recursiveLink) ==
  LET b1 == chainDestruction(b, cd, recursiveLink, "copy", "assign")
  IN [b1 EXCEPT !.blocks["uniqueBB"] =
        [k \in DOMAIN @ |->
           IF @[k].op = "end_borrow" THEN @[k + 1]
           ELSE IF @[k].op = "store" THEN @[k - 1] ELSE @[k]]]

emitRecursiveChainDestruction(b, cd, recursiveLink) ==
  chainDestruction(b, cd, recursiveLink, "copy", "assign")

emitDestroyDefaultActor(b) == create(b, Op("builtin_destroyDefaultActor"))

\* Variant: the recursive link is destroyed as the other members are.
RECURSIVE destroyAllMembers_NoSkip(_, _, _, _)
destroyAllMembers_NoSkip(b, cd, recursiveLinks, i) ==
  IF i > Len(cd.fields) THEN b
  ELSE destroyAllMembers_NoSkip(destroyClassMember(b, cd, i),
                                cd, recursiveLinks, i + 1)

\* The loop over the stored properties of emitClassMemberDestruction.
RECURSIVE destroyAllMembers(_, _, _, _)
destroyAllMembers(b, cd, recursiveLinks, i) ==
  IF i > Len(cd.fields) THEN b
  ELSE destroyAllMembers(
         IF i \in Range(recursiveLinks) THEN b
         ELSE destroyClassMember(b, cd, i),
         cd, recursiveLinks, i + 1)

\* Variant: the default actor state is destroyed before the members.
emitClassMemberDestruction_ActorStateFirst(b, cd) ==
  LET recursiveLinks == findRecursiveLinks(cd)
      b0 == IF cd.isRootDefaultActor THEN emitDestroyDefaultActor(b) ELSE b
      b1 == destroyAllMembers(b0, cd, recursiveLinks, 1)
  IN IF recursiveLinks # <<>>
     THEN emitRecursiveChainDestruction(b1, cd, recursiveLinks[1])
     ELSE b1

emitClassMemberDestruction(b, cd) ==
  LET recursiveLinks == findRecursiveLinks(cd)
      b1 == destroyAllMembers(b, cd, recursiveLinks, 1)
      b2 == IF recursiveLinks # <<>>
            THEN emitRecursiveChainDestruction(b1, cd, recursiveLinks[1])
            ELSE b1
  IN IF cd.isRootDefaultActor THEN emitDestroyDefaultActor(b2) ELSE b2


\* The executor of the isolation of the deinit, and the precondition that
\* the destroying form already runs on it.
emitExecutorCheck(b, cd) ==
  IF cd.isolated THEN create(b, Op("precondition_check_executor")) ELSE b

\* emitStmt of the body; a body without a normal exit ends the block.
emitBody(b, cd) ==
  IF cd.bodyReturns THEN create(b, Op("body"))
  ELSE createAll(b, << Op("body"), Op("unreachable") >>)

callsSuper(cd) == cd.hasSuperclass /\ ~cd.isNativeNSObjectSubclass

SuperclassDestroy ==
  << Op("upcast"),
     Ins("function_ref", "superDestroyer", "", 0),
     Ins("apply", "superDestroyer", "", 0) >>

\* Variant: the superclass destroyer is called twice.
emitSuperclassDestroy_Twice(b, cd) ==
  IF callsSuper(cd)
  THEN createAll(b, SuperclassDestroy \o SuperclassDestroy)
  ELSE b

emitSuperclassDestroy(b, cd) ==
  IF callsSuper(cd)
  THEN createAll(b, SuperclassDestroy)
  ELSE b

emitBorrowOfResult(b, cd) ==
  LET b1 == create(b, Ins("begin_borrow", "lexical", "", 0))
  IN IF callsSuper(cd)
     THEN create(b1, Ins("unchecked_ref_cast", "class", "", 0))
     ELSE b1

emitResignID(b, cd) ==
  IF cd.isDistributedActor THEN create(b, Ins("apply", "resignID", "", 0))
  ELSE b

emitReturnOfSelf(b, cd) ==
  LET b1 == createAll(b, << Ins("end_borrow", "lexical", "", 0),
                            Ins("unchecked_ref_cast", "nativeObject", "", 0) >>)
      b2 == IF callsSuper(cd) THEN b1
            ELSE create(b1, Op("unchecked_ownership_conversion"))
  IN create(b2, Ins("return", "self", "", 0))

\* Variant: the members are destroyed before the resignID call.
emitDestroyingDestructor_MembersFirst(cd) ==
  LET b1 == emitBody(emitExecutorCheck(NewFunction, cd), cd)
  IN IF ~cd.bodyReturns THEN b1
     ELSE emitReturnOfSelf(
            emitResignID(
              emitClassMemberDestruction(
                emitBorrowOfResult(emitSuperclassDestroy(b1, cd), cd),
                cd),
              cd),
            cd)

\* Variant: the executor is checked after the body.
emitDestroyingDestructor_CheckAfterBody(cd) ==
  LET b1 == emitExecutorCheck(emitBody(NewFunction, cd), cd)
  IN IF ~cd.bodyReturns THEN b1
     ELSE emitReturnOfSelf(
            emitClassMemberDestruction(
              emitResignID(
                emitBorrowOfResult(emitSuperclassDestroy(b1, cd), cd),
                cd),
              cd),
            cd)

\* Variant: the epilog is emitted whether or not the body has a normal
\* exit.
emitDestroyingDestructor_AlwaysEpilog(cd) ==
  LET b1 == emitBody(emitExecutorCheck(NewFunction, cd), cd)
  IN emitReturnOfSelf(
       emitClassMemberDestruction(
         emitResignID(
           emitBorrowOfResult(emitSuperclassDestroy(b1, cd), cd),
           cd),
         cd),
       cd)

emitDestroyingDestructor(cd) ==
  LET b1 == emitBody(emitExecutorCheck(NewFunction, cd), cd)
  IN IF ~cd.bodyReturns THEN b1
     ELSE emitReturnOfSelf(
            emitClassMemberDestruction(
              emitResignID(
                emitBorrowOfResult(emitSuperclassDestroy(b1, cd), cd),
                cd),
              cd),
            cd)

\* Variant: the names of the properties are not tested.
RECURSIVE destroyRemoteMembers_AnyName(_, _, _)
destroyRemoteMembers_AnyName(b, cd, i) ==
  IF i > Len(cd.fields) THEN b
  ELSE destroyRemoteMembers_AnyName(
         IF cd.fields[i].iso THEN b ELSE destroyClassMember(b, cd, i),
         cd, i + 1)

\* The loop over the stored properties of the remote block.
RECURSIVE destroyRemoteMembers(_, _, _)
destroyRemoteMembers(b, cd, i) ==
  IF i > Len(cd.fields) THEN b
  ELSE destroyRemoteMembers(
         IF cd.fields[i].iso THEN b
         ELSE IF cd.fields[i].name = "id" \/ cd.fields[i].name = "actorSystem"
              THEN destroyClassMember(b, cd, i)
              ELSE b,
         cd, i + 1)

\* Variant: the remote block returns instead of branching to the finish
\* block.
remoteActorDeinitBlock_Returns(b, cd) ==
  LET b2 == create(emitBlock(b, "remoteActorDeinitBB"),
                   Ins("begin_borrow", "", "", 0))
      b3 == destroyRemoteMembers(b2, cd, 1)
      b4 == IF cd.isRootDefaultActor THEN emitDestroyDefaultActor(b3)
            ELSE b3
  IN createAll(b4, << Ins("end_borrow", "", "", 0),
                      Ins("dealloc_ref", "self", "", 0),
                      Ins("return", "", "", 0) >>)

\* Variant: the remote proxy resigns its id.
remoteActorDeinitBlock_Resigns(b, cd) ==
  LET b2 == createAll(emitBlock(b, "remoteActorDeinitBB"),
                      << Ins("begin_borrow", "", "", 0),
                         Ins("apply", "resignID", "", 0) >>)
      b3 == destroyRemoteMembers(b2, cd, 1)
      b4 == IF cd.isRootDefaultActor THEN emitDestroyDefaultActor(b3)
            ELSE b3
  IN createAll(b4, << Ins("end_borrow", "", "", 0),
                      Ins("dealloc_ref", "self", "", 0),
                      Br("finishDeinitBB") >>)

\* The block of the remote proxy: the members a proxy has, the default
\* actor state of a root actor, the memory.
remoteActorDeinitBlock(b, cd) ==
  LET b2 == create(emitBlock(b, "remoteActorDeinitBB"),
                   Ins("begin_borrow", "", "", 0))
      b3 == destroyRemoteMembers(b2, cd, 1)
      b4 == IF cd.isRootDefaultActor THEN emitDestroyDefaultActor(b3)
            ELSE b3
  IN createAll(b4, << Ins("end_borrow", "", "", 0),
                      Ins("dealloc_ref", "self", "", 0),
                      Br("finishDeinitBB") >>)

emitDistributedRemoteActorDeinit(b, cd, isIsolated, emitLocalDeinit(_)) ==
  IF isIsolated \/ ~cd.isDistributedActor
  THEN create(emitLocalDeinit(b), Ins("return", "", "", 0))
  ELSE
    LET b0 == createBasicBlock(createBasicBlock(createBasicBlock(b,
                "remoteActorDeinitBB"), "finishDeinitBB"),
                "localActorDeinitBB")
        \* emitDistributedIfRemoteBranch
        b1 == createAll(b0, << Op("is_remote"),
                               CondBr("remoteActorDeinitBB",
                                      "localActorDeinitBB") >>)
        b5 == remoteActorDeinitBlock(b1, cd)
        b6 == create(emitLocalDeinit(emitBlock(b5, "localActorDeinitBB")),
                     Br("finishDeinitBB"))
    IN create(emitBlock(b6, "finishDeinitBB"), Ins("return", "", "", 0))

\* Variant: the instance is destroyed and its memory is kept.
emitDeallocatingClassDestructor_NoFree(cd, isIsolated) ==
  LET emitLocalDeinit(b) ==
        createAll(b, << Ins("function_ref", "destroyer", "", 0),
                        Ins("begin_borrow", "", "", 0),
                        Ins("apply", "destroyer", "", 0),
                        Ins("end_borrow", "", "", 0),
                        Op("end_lifetime"),
                        Ins("unchecked_ref_cast", "class", "", 0) >>)
  IN emitDistributedRemoteActorDeinit(NewFunction, cd, isIsolated,
                                      emitLocalDeinit)

\* Variant: the lifetime of self is ended before the destroyer is called.
emitDeallocatingClassDestructor_EndLifetimeFirst(cd, isIsolated) ==
  LET emitLocalDeinit(b) ==
        createAll(b, << Ins("function_ref", "destroyer", "", 0),
                        Op("end_lifetime"),
                        Ins("begin_borrow", "", "", 0),
                        Ins("apply", "destroyer", "", 0),
                        Ins("end_borrow", "", "", 0),
                        Ins("unchecked_ref_cast", "class", "", 0),
                        Ins("dealloc_ref", "handle", "", 0) >>)
  IN emitDistributedRemoteActorDeinit(NewFunction, cd, isIsolated,
                                      emitLocalDeinit)

\* Variant: the isolated deallocator tests for a remote proxy as well.
emitDeallocatingClassDestructor_IgnoresIsolated(cd, isIsolated) ==
  LET emitLocalDeinit(b) ==
        createAll(b, << Ins("function_ref", "destroyer", "", 0),
                        Ins("begin_borrow", "", "", 0),
                        Ins("apply", "destroyer", "", 0),
                        Ins("end_borrow", "", "", 0),
                        Op("end_lifetime"),
                        Ins("unchecked_ref_cast", "class", "", 0),
                        Ins("dealloc_ref", "handle", "", 0) >>)
  IN emitDistributedRemoteActorDeinit(NewFunction, cd, FALSE,
                                      emitLocalDeinit)

emitDeallocatingClassDestructor(cd, isIsolated) ==
  LET emitLocalDeinit(b) ==
        createAll(b, << Ins("function_ref", "destroyer", "", 0),
                        Ins("begin_borrow", "", "", 0),
                        Ins("apply", "destroyer", "", 0),
                        Ins("end_borrow", "", "", 0),
                        Op("end_lifetime"),
                        Ins("unchecked_ref_cast", "class", "", 0),
                        Ins("dealloc_ref", "handle", "", 0) >>)
  IN emitDistributedRemoteActorDeinit(NewFunction, cd, isIsolated,
                                      emitLocalDeinit)

\* Variant: the memory is freed after the submission.
emitIsolatingDestructor_AlsoFrees(cd) ==
  LET emitLocalDeinit(b) ==
        createAll(b, << Ins("function_ref", "isolatedDeallocator", "", 0),
                        Op("extract_executor"),
                        Ins("function_ref", "deinitOnExecutor", "", 0),
                        Op("init_existential_ref"),
                        Op("convert_function"),
                        Op("integer_literal"),
                        Ins("apply", "deinitOnExecutor", "", 0),
                        Ins("dealloc_ref", "self", "", 0) >>)
  IN emitDistributedRemoteActorDeinit(NewFunction, cd, FALSE,
                                      emitLocalDeinit)

emitIsolatingDestructor(cd) ==
  LET emitLocalDeinit(b) ==
        createAll(b, << Ins("function_ref", "isolatedDeallocator", "", 0),
                        Op("extract_executor"),
                        Ins("function_ref", "deinitOnExecutor", "", 0),
                        Op("init_existential_ref"),
                        Op("convert_function"),
                        Op("integer_literal"),
                        Ins("apply", "deinitOnExecutor", "", 0) >>)
  IN emitDistributedRemoteActorDeinit(NewFunction, cd, FALSE,
                                      emitLocalDeinit)

\* Variant: the fields of trivial type are destroyed as well.
RECURSIVE destroyStructMembers_AllFields(_, _, _)
destroyStructMembers_AllFields(b, nom, i) ==
  IF i > Len(nom.fields) THEN b
  ELSE destroyStructMembers_AllFields(
         createAll(b, << Ins("struct_element_addr", "", "value", i),
                         Ins("begin_access", "deinit", "value", i),
                         Ins("destroy_addr", "", "value", i),
                         Ins("end_access", "", "value", i) >>),
         nom, i + 1)

\* The loop over the stored properties of a struct.
RECURSIVE destroyStructMembers(_, _, _)
destroyStructMembers(b, nom, i) ==
  IF i > Len(nom.fields) THEN b
  ELSE destroyStructMembers(
         IF nom.fields[i].ty = "trivial" THEN b
         ELSE createAll(b, << Ins("struct_element_addr", "", "value", i),
                              Ins("begin_access", "deinit", "value", i),
                              Ins("destroy_addr", "", "value", i),
                              Ins("end_access", "", "value", i) >>),
         nom, i + 1)

\* Variant: the payload is destroyed whether or not the element has
\* associated values.
RECURSIVE emitEnumBlocks_AnyElement(_, _, _)
emitEnumBlocks_AnyElement(b, nom, i) ==
  IF i > Len(nom.cases) THEN b
  ELSE LET enumBlock == EnumBlockNames[i]
           b1 == createBasicBlock(b, enumBlock)
           insts == << Ins("unchecked_take_enum_data_addr", "", "value", i),
                       Ins("destroy_addr", "", "payload", i),
                       Br("contBlock") >>
       IN emitEnumBlocks_AnyElement([b1 EXCEPT !.blocks[enumBlock] = insts],
                                    nom, i + 1)

\* The loop over the elements of an enum: one block for each.
RECURSIVE emitEnumBlocks(_, _, _)
emitEnumBlocks(b, nom, i) ==
  IF i > Len(nom.cases) THEN b
  ELSE LET enumBlock == EnumBlockNames[i]
           b1 == createBasicBlock(b, enumBlock)
           insts == (IF nom.cases[i]
                     THEN << Ins("unchecked_take_enum_data_addr", "",
                                 "value", i),
                             Ins("destroy_addr", "", "payload", i) >>
                     ELSE <<>>) \o << Br("contBlock") >>
       IN emitEnumBlocks([b1 EXCEPT !.blocks[enumBlock] = insts],
                         nom, i + 1)

\* Variant: the drop marker is created whatever the incoming value is.
emitMoveOnlyMemberDestruction_AlwaysDrops(b, selfValue, nom) ==
  LET b1 == create(b, Ins("drop_deinit", "", "value", 0))
  IN IF selfValue.isObject
     THEN create(b1, Ins("destroy_value", "", "value", 0))
     ELSE IF nom.kind = "struct"
     THEN destroyStructMembers(b1, nom, 1)
     ELSE LET origBlock == b1.cur
              b2 == emitEnumBlocks(createBasicBlock(b1, "contBlock"), nom, 1)
              caseCleanups == [i \in 1..Len(nom.cases) |-> EnumBlockNames[i]]
              b3 == create(emitBlock(b2, origBlock),
                      [Ins("switch_enum_addr", "", "value", 0)
                         EXCEPT !.cases = caseCleanups])
          IN emitBlock(b3, "contBlock")

emitMoveOnlyMemberDestruction(b, selfValue, nom) ==
  LET b1 == IF ~selfValue.isDrop
            THEN create(b, Ins("drop_deinit", "", "value", 0))
            ELSE b
  IN IF selfValue.isObject
     THEN create(b1, Ins("destroy_value", "", "value", 0))
     ELSE IF nom.kind = "struct"
     THEN destroyStructMembers(b1, nom, 1)
     ELSE LET origBlock == b1.cur
              b2 == emitEnumBlocks(createBasicBlock(b1, "contBlock"), nom, 1)
              caseCleanups == [i \in 1..Len(nom.cases) |-> EnumBlockNames[i]]
              b3 == create(emitBlock(b2, origBlock),
                      [Ins("switch_enum_addr", "", "value", 0)
                         EXCEPT !.cases = caseCleanups])
          IN emitBlock(b3, "contBlock")

emitDeallocatingMoveOnlyDestructor(nom) ==
  LET b1 == create(NewFunction, Op("body"))
      b2 == emitMoveOnlyMemberDestruction(b1, nom.self, nom)
      b3 == IF nom.self.isDrop /\ nom.self.fromAlloc
            THEN create(b2, Ins("dealloc_stack", "", "value", 0))
            ELSE b2
  IN create(b3, Ins("return", "", "", 0))

emitDeallocatingDestructor(dd, isIsolated) ==
  IF dd.kind = "class" THEN emitDeallocatingClassDestructor(dd, isIsolated)
  ELSE emitDeallocatingMoveOnlyDestructor(dd)


\* --------------------------------------------------- declarations drawn
NoSelf == [isDrop |-> FALSE, isObject |-> TRUE, fromAlloc |-> FALSE]

ClassDecl(fs, sup, ns, dist, root, isol, ret) ==
  [kind |-> "class", fields |-> fs, cases |-> <<>>, self |-> NoSelf,
   hasSuperclass |-> sup, isNativeNSObjectSubclass |-> ns,
   isDistributedActor |-> dist, isRootDefaultActor |-> root,
   isolated |-> isol, bodyReturns |-> ret]

ValueDecl(k, fs, cs, sv) ==
  [kind |-> k, fields |-> fs, cases |-> cs, self |-> sv,
   hasSuperclass |-> FALSE, isNativeNSObjectSubclass |-> FALSE,
   isDistributedActor |-> FALSE, isRootDefaultActor |-> FALSE,
   isolated |-> FALSE, bodyReturns |-> TRUE]

\* Classes that are not distributed actors.
PlainClassDecls ==
  {ClassDecl(fs, sup, ns, FALSE, root, isol, ret) :
     fs \in PropLists(PlainProps, MaxFields),
     sup \in BOOLEAN, ns \in BOOLEAN, root \in BOOLEAN,
     isol \in BOOLEAN, ret \in BOOLEAN}

\* Distributed actors: id and actorSystem are synthesized ahead of the
\* stored properties written in the declaration.
DistributedClassDecls ==
  {ClassDecl(<<P_id, P_actorSystem>> \o fs, sup, ns, TRUE, root, isol, ret) :
     fs \in PropLists(ActorProps \ {P_id, P_actorSystem}, MaxFields),
     sup \in BOOLEAN, ns \in BOOLEAN, root \in BOOLEAN,
     isol \in BOOLEAN, ret \in BOOLEAN}

\* A native NSObject subclass has a superclass, and a class with a Swift
\* superclass is no root actor.
WellFormed(d) ==
  /\ d.isNativeNSObjectSubclass => d.hasSuperclass
  /\ d.isRootDefaultActor =>
       (~d.hasSuperclass \/ d.isNativeNSObjectSubclass)

ClassDecls == {d \in PlainClassDecls \cup DistributedClassDecls : WellFormed(d)}

SelfValues ==
  {sv \in [isDrop : BOOLEAN, isObject : BOOLEAN, fromAlloc : BOOLEAN] :
     sv.fromAlloc => (sv.isDrop /\ ~sv.isObject)}

StructDecls ==
  {ValueDecl("struct", fs, <<>>, sv) :
     fs \in PropLists({P_count, P_payload, P_tag}, MaxFields),
     sv \in SelfValues}

EnumDecls ==
  {ValueDecl("enum", <<>>, cs, sv) :
     cs \in UNION {[1..k -> BOOLEAN] : k \in 1..MaxCases},
     sv \in SelfValues}

Decls == ClassDecls \cup StructDecls \cup EnumDecls

\* ------------------------------------------------------------ the heap
LinkFields(d) == {i \in 1..Len(d.fields) : d.fields[i].ty = "optSelf"}

\* rc0 keeps the number of owners the instance starts with.
Instance(rc, rem, lk, tg) ==
  [rc |-> rc, rc0 |-> rc, st |-> "live", remote |-> rem, link |-> lk,
   tag |-> tg]

\* Instances 1..n of a class: instance 1 is the one whose last reference
\* is released; each other instance is owned by one link field of an
\* earlier instance, and at most one of them has a second owner.  A
\* remote proxy owns no other instance.  Linked instances are drawn for
\* the classes without superclass and without default-actor state; second
\* owners and proxies among them for the classes with one link field.
\* The instances of a class with more link fields form a chain or are all
\* owned by instance 1.
ClassHeaps(d) ==
  LET L == LinkFields(d)
      maxN == IF L = {} \/ d.hasSuperclass \/ d.isRootDefaultActor
              THEN 1 ELSE MaxChain
  IN UNION {
       {[j \in 1..n |->
           Instance(IF j = ext THEN 2 ELSE 1, j \in rem,
                    [i \in 1..Len(d.fields) |->
                       IF \E c \in 2..n : par[c] = j /\ via[c] = i
                       THEN CHOOSE c \in 2..n : par[c] = j /\ via[c] = i
                       ELSE 0],
                    0)] :
          par \in {f \in [2..n -> 1..n] :
                    /\ \A c \in 2..n : f[c] < c
                    /\ Cardinality(L) > 1 =>
                         \/ \A c \in 2..n : f[c] = c - 1
                         \/ \A c \in 2..n : f[c] = 1},
          via \in [2..n -> L],
          ext \in IF Cardinality(L) > 1 THEN {0} ELSE {0} \cup 2..n,
          rem \in IF ~d.isDistributedActor \/ (Cardinality(L) > 1 /\ n > 1)
                  THEN {{}} ELSE SUBSET (1..n)}
       : n \in 1..maxN}

ValidHeap(d, h) ==
  /\ \A j \in DOMAIN h : \A i \in LinkFields(d) :
       h[j].remote => h[j].link[i] = 0
  /\ \A c \in DOMAIN h : c > 1 =>
       \E j \in DOMAIN h : \E i \in LinkFields(d) : h[j].link[i] = c

ValueHeaps(d) ==
  {[j \in 1..1 |-> Instance(1, FALSE, [i \in 1..Len(d.fields) |-> 0], tg)] :
     tg \in IF d.kind = "enum" THEN 1..Len(d.cases) ELSE {0}}

Heaps(d) ==
  IF d.kind = "class" THEN {h \in ClassHeaps(d) : ValidHeap(d, h)}
  ELSE ValueHeaps(d)


\* ------------------------------------------------- the emitted functions
\* The function a SILDeclRef kind names: the destroyer, the deallocator
\* (the isolating form when the deinit is isolated) and the isolated
\* deallocator.
Code(d, fn) ==
  CASE fn = "destroyer" -> emitDestroyingDestructor(d).blocks
    [] fn = "deallocator" ->
         IF d.kind = "class" /\ d.isolated
         THEN emitIsolatingDestructor(d).blocks
         ELSE emitDeallocatingDestructor(d, FALSE).blocks
    [] fn = "isolatedDeallocator" ->
         emitDeallocatingDestructor(d, TRUE).blocks

\* An activation: the function, its self, the position, the working slot
\* (-2 not allocated, -1 holds nothing, 0 none, n some(n)), the last
\* loaded or returned value, the last tested condition, the open access
\* regions, and whether it runs on the executor of the deinit.
Frame(fn, n, on) ==
  [fn |-> fn, self |-> n, blk |-> "entry", pc |-> 1, slot |-> -2,
   val |-> 0, flag |-> FALSE, acc |-> <<>>, onExec |-> on]

Functions == {"destroyer", "deallocator", "isolatedDeallocator"}

Top == stack[Len(stack)]
Cur == code[Top.fn][Top.blk][Top.pc]
Running ==
  /\ status = "running" /\ stack # <<>>
  /\ Top.blk \in DOMAIN code[Top.fn]
  /\ Top.pc \in DOMAIN code[Top.fn][Top.blk]
AtOp(ops) == Running /\ Cur.op \in ops

\* The log entry of the current instruction; tgt is the instance it
\* loads, releases or frees (0: none), rc the reference count of that
\* instance before the instruction.
Entry(tgt) ==
  [op |-> Cur.op, q |-> Cur.q, base |-> Cur.base, fld |-> Cur.fld,
   fn |-> Top.fn, self |-> Top.self, depth |-> Len(stack), tgt |-> tgt,
   blk |-> Top.blk, rc |-> IF tgt \in DOMAIN heap THEN heap[tgt].rc ELSE 0]

Logged(tgt) == log' = Append(log, Entry(tgt))

Advanced(stk) == [stk EXCEPT ![Len(stk)].pc = @ + 1]

\* Dropping one reference to instance m; the last one starts its
\* deallocator.
Dies(h, m) == m >= 1 /\ h[m].rc = 1 /\ h[m].st = "live"
Released(h, m) ==
  IF m >= 1 /\ h[m].rc >= 1
  THEN [h EXCEPT ![m].rc = @ - 1,
                 ![m].st = IF Dies(h, m) THEN "deiniting" ELSE @]
  ELSE h
Entered(stk, h, m) ==
  IF Dies(h, m) THEN Append(stk, Frame("deallocator", m, Top.onExec))
  ELSE stk

Retained(h, m) == IF m >= 1 THEN [h EXCEPT ![m].rc = @ + 1] ELSE h

\* ----------------------------------------------------------------- Init
Init ==
  /\ decl \in Decls
  /\ code = [fn \in Functions |-> Code(decl, fn)]
  /\ heap \in Heaps(decl)
  /\ stack = <<>>
  /\ jobs = {}
  /\ status = "start"
  /\ log = <<>>
  /\ saved = [mode |-> "deallocate", heap0 |-> <<>>, first |-> <<>>]

\* -------------------------------------------------------------- actions
\* The last reference to instance 1 is released (a value is consumed):
\* its deallocator starts.
StartDeallocating ==
  /\ status = "start" /\ saved.mode # "destroy"
  /\ heap' = Released(heap, 1)
  /\ stack' = <<Frame("deallocator", 1, FALSE)>>
  /\ status' = "running"
  /\ log' = Append(log, [op |-> "release", q |-> "", base |-> "", fld |-> 0,
                         fn |-> "", self |-> 0, depth |-> 0, tgt |-> 1,
                         blk |-> "", rc |-> 0])
  /\ UNCHANGED <<saved, decl, code, jobs>>

NoEffectOps ==
  {"ref_element_addr", "struct_element_addr", "enum_none",
   "unchecked_enum_data", "upcast", "function_ref", "begin_borrow",
   "end_borrow", "load_borrow", "unchecked_ref_cast",
   "unchecked_ownership_conversion", "end_lifetime", "extract_executor",
   "init_existential_ref", "convert_function", "integer_literal",
   "unchecked_take_enum_data_addr", "drop_deinit"}

\* Address computations, casts, borrows and markers.
ExecNoEffect ==
  /\ AtOp(NoEffectOps)
  /\ stack' = Advanced(stack)
  /\ Logged(0)
  /\ UNCHANGED <<saved, decl, code, heap, jobs, status>>

\* User code and runtime calls this lowering treats as opaque: the deinit
\* body, the superclass destroyer, resignID, destroyDefaultActor.
ExecOpaque ==
  /\ \/ AtOp({"body", "builtin_destroyDefaultActor"})
     \/ AtOp({"apply"}) /\ Cur.q \in {"superDestroyer", "resignID"}
  /\ stack' = [Advanced(stack) EXCEPT ![Len(stack)].val = Top.self]
  /\ Logged(0)
  /\ UNCHANGED <<saved, decl, code, heap, jobs, status>>

ExecAccess ==
  /\ AtOp({"begin_access", "end_access"})
  /\ stack' = [Advanced(stack) EXCEPT ![Len(stack)].acc =
                 IF Cur.op = "begin_access"
                 THEN Append(@, <<Cur.base, Cur.fld>>)
                 ELSE IF @ = <<>> THEN @ ELSE SubSeq(@, 1, Len(@) - 1)]
  /\ Logged(0)
  /\ UNCHANGED <<saved, decl, code, heap, jobs, status>>

ExecStackSlot ==
  /\ AtOp({"alloc_stack", "dealloc_stack"})
  /\ stack' = [Advanced(stack) EXCEPT ![Len(stack)].slot =
                 IF Cur.base # "iter" THEN @
                 ELSE IF Cur.op = "alloc_stack" THEN -1 ELSE -2]
  /\ Logged(0)
  /\ UNCHANGED <<saved, decl, code, heap, jobs, status>>

\* The instance whose field an instruction addresses.
Base == IF Cur.base = "link" THEN Top.slot ELSE Top.self

\* load [take] moves the reference out of the field, whose bits stay as
\* they are; load [copy] adds a reference to the instance loaded.
ExecLoad ==
  /\ AtOp({"load"})
  /\ Base \in DOMAIN heap
  /\ LET v == heap[Base].link[Cur.fld] IN
       /\ stack' = [Advanced(stack) EXCEPT ![Len(stack)].val = v]
       /\ heap' = IF Cur.q = "copy" THEN Retained(heap, v) ELSE heap
       /\ Logged(v)
  /\ UNCHANGED <<saved, decl, code, jobs, status>>

\* store [init] fills empty storage; store [assign] releases what the
\* storage held.
ExecStore ==
  /\ AtOp({"store", "store_none"})
  /\ IF Cur.op = "store_none"
     THEN /\ heap' = [heap EXCEPT ![Base].link[Cur.fld] = 0]
          /\ stack' = Advanced(stack)
          /\ Logged(0)
     ELSE LET old == IF Cur.q = "assign" THEN Top.slot ELSE 0
              stk == [Advanced(stack) EXCEPT ![Len(stack)].slot = Top.val]
          IN /\ heap' = Released(heap, old)
             /\ stack' = Entered(stk, heap, old)
             /\ Logged(old)
  /\ UNCHANGED <<saved, decl, code, jobs, status>>

\* destroy_addr of a class field, of the working slot, of a struct field
\* or of an enum payload, and destroy_value of an object: a reference held
\* there is released.
ExecDestroy ==
  /\ AtOp({"destroy_addr", "destroy_value"})
  /\ LET held == IF Cur.base = "iter" THEN Top.slot
                 ELSE IF Cur.base = "self"
                 THEN heap[Top.self].link[Cur.fld]
                 ELSE 0
         stk == IF Cur.base = "iter"
                THEN [Advanced(stack) EXCEPT ![Len(stack)].slot = -1]
                ELSE Advanced(stack)
         h == IF Cur.base = "self" /\ Cur.fld \in LinkFields(decl)
              THEN [heap EXCEPT ![Top.self].link[Cur.fld] = -1]
              ELSE heap
     IN /\ heap' = Released(h, held)
        /\ stack' = Entered(stk, heap, held)
        /\ Logged(held)
  /\ UNCHANGED <<saved, decl, code, jobs, status>>

\* is_unique of the working slot; the remote-proxy test of self.
ExecTest ==
  /\ AtOp({"is_unique", "is_remote"})
  /\ stack' = [Advanced(stack) EXCEPT ![Len(stack)].flag =
                 IF Cur.op = "is_remote" THEN heap[Top.self].remote
                 ELSE Top.slot \in DOMAIN heap /\ heap[Top.slot].rc = 1]
  /\ Logged(IF Cur.op = "is_unique" THEN Top.slot ELSE 0)
  /\ UNCHANGED <<saved, decl, code, heap, jobs, status>>

ExecBranch ==
  /\ AtOp({"br", "cond_br", "switch_enum", "switch_enum_addr"})
  /\ LET target ==
           CASE Cur.op = "br" -> Cur.t1
             [] Cur.op = "cond_br" -> IF Top.flag THEN Cur.t1 ELSE Cur.t2
             [] Cur.op = "switch_enum" ->
                  IF Top.slot >= 1 THEN Cur.t1 ELSE Cur.t2
             [] Cur.op = "switch_enum_addr" -> Cur.cases[heap[Top.self].tag]
     IN stack' = [stack EXCEPT ![Len(stack)].blk = target,
                               ![Len(stack)].pc = 1]
  /\ Logged(0)
  /\ UNCHANGED <<saved, decl, code, heap, jobs, status>>

\* apply of the destroying destructor of this class.
ExecCall ==
  /\ AtOp({"apply"}) /\ Cur.q = "destroyer"
  /\ stack' = Append(Advanced(stack), Frame("destroyer", Top.self, Top.onExec))
  /\ Logged(0)
  /\ UNCHANGED <<saved, decl, code, heap, jobs, status>>

\* apply of swift_task_deinitOnExecutor: the work is submitted.
ExecSubmit ==
  /\ AtOp({"apply"}) /\ Cur.q = "deinitOnExecutor"
  /\ jobs' = jobs \cup {Top.self}
  /\ stack' = Advanced(stack)
  /\ Logged(Top.self)
  /\ UNCHANGED <<saved, decl, code, heap, status>>

\* The executor runs a submitted isolated deallocator, once.
RunJob ==
  /\ status = "running" /\ stack = <<>>
  /\ \E n \in jobs :
       /\ jobs' = jobs \ {n}
       /\ stack' = <<Frame("isolatedDeallocator", n, TRUE)>>
       /\ log' = Append(log, [op |-> "run_job", q |-> "", base |-> "",
                              fld |-> 0, fn |-> "", self |-> 0,
                              depth |-> 0, tgt |-> n, blk |-> "", rc |-> 0])
  /\ UNCHANGED <<saved, decl, code, heap, status>>

ExecDeallocRef ==
  /\ AtOp({"dealloc_ref"})
  /\ LET n == IF Cur.q = "self" THEN Top.self ELSE Top.val IN
       /\ heap' = [heap EXCEPT ![n].st = "freed"]
       /\ Logged(n)
  /\ stack' = Advanced(stack)
  /\ UNCHANGED <<saved, decl, code, jobs, status>>

\* return: the destroying form hands self back to its caller.
ExecReturn ==
  /\ AtOp({"return"})
  /\ LET rest == SubSeq(stack, 1, Len(stack) - 1) IN
       stack' = IF rest # <<>> /\ Cur.q = "self"
                THEN [rest EXCEPT ![Len(rest)].val = Top.self]
                ELSE rest
  /\ Logged(IF Cur.q = "self" THEN Top.self ELSE 0)
  /\ UNCHANGED <<saved, decl, code, heap, jobs, status>>

\* The expected-executor precondition: it passes on the executor and
\* traps off it.
ExecPrecondition ==
  /\ AtOp({"precondition_check_executor"})
  /\ IF Top.onExec
     THEN stack' = Advanced(stack) /\ status' = status
     ELSE stack' = stack /\ status' = "trapped"
  /\ Logged(0)
  /\ UNCHANGED <<saved, decl, code, heap, jobs>>

\* The end of a body that has no normal exit.
ExecUnreachable ==
  /\ AtOp({"unreachable"})
  /\ status' = "trapped"
  /\ Logged(0)
  /\ UNCHANGED <<saved, decl, code, heap, stack, jobs>>

Next ==
  \/ StartDeallocating
  \/ ExecNoEffect
  \/ ExecOpaque
  \/ ExecAccess
  \/ ExecStackSlot
  \/ ExecLoad
  \/ ExecStore
  \/ ExecDestroy
  \/ ExecTest
  \/ ExecBranch
  \/ ExecCall
  \/ ExecSubmit
  \/ RunJob
  \/ ExecDeallocRef
  \/ ExecReturn
  \/ ExecPrecondition
  \/ ExecUnreachable

Spec == Init /\ [][Next]_vars

\* The classes for which the chain loop is emitted; every instruction that
\* can be executed is executed in the end.
InitChain == Init /\ decl.kind = "class" /\ Cardinality(LinkFields(decl)) = 1

SpecChain == InitChain /\ [][Next]_vars /\ WF_vars(Next)


\* ------------------------------------------ the two ways of destroying
\* The destroying form is run on instance 1 and the handle it returns is
\* freed by its caller; the outcome is kept, the heap is put back, and the
\* deallocating form is run on the same instance.
Effect(e) ==
  \/ e.op \in {"body", "destroy_addr", "destroy_value", "dealloc_ref",
               "builtin_destroyDefaultActor", "load", "store", "store_none"}
  \/ e.op = "apply" /\ e.q \in {"superDestroyer", "resignID"}

Projected(e) ==
  [op |-> e.op, q |-> IF e.op = "dealloc_ref" THEN "" ELSE e.q,
   base |-> e.base, fld |-> e.fld,
   self |-> IF e.op = "dealloc_ref" THEN e.tgt ELSE e.self, tgt |-> e.tgt]

Events(l) ==
  LET sel == SelectSeq(l, Effect) IN [k \in DOMAIN sel |-> Projected(sel[k])]

Outcome == [heap |-> heap, status |-> status, events |-> Events(log)]

Finished ==
  \/ status = "trapped"
  \/ /\ status = "running" /\ stack = <<>> /\ jobs = {}
     /\ saved.mode = "destroy" =>
          log # <<>> /\ log[Len(log)].op = "dealloc_ref"

InitRoundTrip ==
  /\ decl \in {d \in ClassDecls : ~d.isolated}
  /\ code = [fn \in Functions |-> Code(decl, fn)]
  /\ heap \in {h \in Heaps(decl) : ~h[1].remote}
  /\ stack = <<>>
  /\ jobs = {}
  /\ status = "start"
  /\ log = <<>>
  /\ saved = [mode |-> "destroy", heap0 |-> heap, first |-> <<>>]

\* The destroying form is applied to instance 1, whose last reference is
\* gone, as the deallocating form applies it.
StartDestroying ==
  /\ status = "start" /\ saved.mode = "destroy"
  /\ heap' = Released(heap, 1)
  /\ stack' = <<Frame("destroyer", 1, FALSE)>>
  /\ status' = "running"
  /\ log' = Append(log, [op |-> "release", q |-> "", base |-> "", fld |-> 0,
                         fn |-> "", self |-> 0, depth |-> 0, tgt |-> 1,
                         blk |-> "", rc |-> 0])
  /\ UNCHANGED <<saved, decl, code, jobs>>

\* The caller frees the handle the destroying form returned.
FreeHandle ==
  /\ status = "running" /\ stack = <<>> /\ saved.mode = "destroy"
  /\ log # <<>>
  /\ LET last == log[Len(log)] IN
       /\ last.op = "return" /\ last.fn = "destroyer" /\ last.tgt >= 1
       /\ heap' = [heap EXCEPT ![last.tgt].st = "freed"]
       /\ log' = Append(log, [op |-> "dealloc_ref", q |-> "handle",
                              base |-> "", fld |-> 0, fn |-> "", self |-> 0,
                              depth |-> 0, tgt |-> last.tgt, blk |-> "",
                              rc |-> 0])
  /\ UNCHANGED <<saved, decl, code, stack, jobs, status>>

\* The first run is over: its outcome is kept and the heap is put back.
Rewind ==
  /\ saved.mode = "destroy" /\ Finished
  /\ saved' = [saved EXCEPT !.mode = "again", !.first = Outcome]
  /\ heap' = saved.heap0
  /\ stack' = <<>>
  /\ jobs' = {}
  /\ status' = "start"
  /\ log' = <<>>
  /\ UNCHANGED <<decl, code>>

NextRoundTrip ==
  \/ StartDestroying
  \/ FreeHandle
  \/ Rewind
  \/ StartDeallocating
  \/ ExecNoEffect
  \/ ExecOpaque
  \/ ExecAccess
  \/ ExecStackSlot
  \/ ExecLoad
  \/ ExecStore
  \/ ExecDestroy
  \/ ExecTest
  \/ ExecBranch
  \/ ExecCall
  \/ ExecDeallocRef
  \/ ExecReturn
  \/ ExecUnreachable

SpecRoundTrip == InitRoundTrip /\ [][NextRoundTrip]_vars


\* ------------------------------------- the destroying form, called as is
\* The destroying form of a class is applied to instance 1 by a caller
\* that runs on the executor of the deinit or on another one.
InitExecutor ==
  /\ decl \in ClassDecls
  /\ code = [fn \in Functions |-> Code(decl, fn)]
  /\ heap \in {h \in Heaps(decl) : ~h[1].remote}
  /\ stack = <<>>
  /\ jobs = {}
  /\ status = "start"
  /\ log = <<>>
  /\ saved = [mode |-> "direct", heap0 |-> <<>>, first |-> <<>>]

StartDestroyingOn ==
  /\ status = "start" /\ saved.mode = "direct"
  /\ \E on \in BOOLEAN : stack' = <<Frame("destroyer", 1, on)>>
  /\ heap' = Released(heap, 1)
  /\ status' = "running"
  /\ log' = Append(log, [op |-> "release", q |-> "", base |-> "",
                         fld |-> 0, fn |-> "", self |-> 0, depth |-> 0,
                         tgt |-> 1, blk |-> "", rc |-> 0])
  /\ UNCHANGED <<saved, decl, code, jobs>>

NextExecutor ==
  \/ StartDestroyingOn
  \/ ExecNoEffect
  \/ ExecOpaque
  \/ ExecAccess
  \/ ExecStackSlot
  \/ ExecLoad
  \/ ExecStore
  \/ ExecDestroy
  \/ ExecTest
  \/ ExecBranch
  \/ ExecCall
  \/ ExecSubmit
  \/ RunJob
  \/ ExecDeallocRef
  \/ ExecReturn
  \/ ExecPrecondition
  \/ ExecUnreachable

SpecExecutor == InitExecutor /\ [][NextExecutor]_vars


\* ------------------------------------------------- chains of root actors
\* Chains of local instances of a root default actor class with one
\* Optional<Self> stored property, each instance owned by the one before.
ActorChains(d) ==
  IF d.isRootDefaultActor /\ Cardinality(LinkFields(d)) = 1
  THEN {[j \in 1..n |->
           Instance(1, FALSE,
                    [i \in 1..Len(d.fields) |->
                       IF i \in LinkFields(d) /\ j < n THEN j + 1 ELSE 0],
                    0)] : n \in 2..MaxChain}
  ELSE {}

InitActor ==
  /\ decl \in ClassDecls
  /\ code = [fn \in Functions |-> Code(decl, fn)]
  /\ heap \in Heaps(decl) \cup ActorChains(decl)
  /\ stack = <<>>
  /\ jobs = {}
  /\ status = "start"
  /\ log = <<>>
  /\ saved = [mode |-> "deallocate", heap0 |-> <<>>, first |-> <<>>]

SpecActor == InitActor /\ [][Next]_vars


\* ------------------------------------------------------ reading the log
Count(P(_)) == Cardinality({k \in DOMAIN log : P(log[k])})

FieldDestroys(n, i) ==
  Count(LAMBDA e : e.op = "destroy_addr" /\ e.base = "self"
                   /\ e.self = n /\ e.fld = i)
BodyRuns(n) == Count(LAMBDA e : e.op = "body" /\ e.self = n)
Frees(n) == Count(LAMBDA e : e.op = "dealloc_ref" /\ e.tgt = n)
DestroyerReturns(n) ==
  Count(LAMBDA e : e.op = "return" /\ e.fn = "destroyer" /\ e.self = n)

Nodes == DOMAIN heap
IsClass == decl.kind = "class"
OwnFields == 1..Len(decl.fields)
NonTrivial == {i \in OwnFields : decl.fields[i].ty # "trivial"}
Quiescent == status = "running" /\ stack = <<>> /\ jobs = {}

\* Instances that have an activation on the stack.
Active == {stack[k].self : k \in DOMAIN stack}

\* A chain of local instances of a class with exactly one Optional<Self>
\* stored property, each instance with one owner.
UniqueChain ==
  /\ IsClass
  /\ Cardinality(LinkFields(decl)) = 1
  /\ \A n \in Nodes : heap[n].rc0 = 1 /\ ~heap[n].remote

\* Instance n has been destroyed exactly once: its body ran once, each
\* non-trivial property other than the link was destroyed once, and (but
\* for the head, whose memory the caller of the destroying form frees) it
\* was freed once.
DestroyedOnce(n) ==
  /\ BodyRuns(n) = 1
  /\ DestroyerReturns(n) = 1
  /\ \A i \in NonTrivial \ LinkFields(decl) : FieldDestroys(n, i) = 1
  /\ n # 1 => Frees(n) = 1 /\ heap[n].st = "freed"

NeverTwice(n) ==
  /\ BodyRuns(n) <= 1
  /\ DestroyerReturns(n) <= 1
  /\ Frees(n) <= 1
  /\ \A i \in OwnFields : FieldDestroys(n, i) <= 1

\* C1 as stated: when the destroying form of the head of a uniquely owned
\* chain has returned, every instance of the chain has been destroyed
\* exactly once and none is left alive.
C1_AsStated ==
  (UniqueChain /\ DestroyerReturns(1) = 1) =>
     \A n \in Nodes : DestroyedOnce(n)

\* C1 amended: no instance of a uniquely owned chain of local instances
\* is ever destroyed twice, and every instance has been destroyed exactly
\* once when the destroying form of the head has returned and, for an
\* isolated deinit, the deallocations submitted to the executor have run.
C1_ChainDestroyedOnce ==
  UniqueChain =>
    /\ \A n \in Nodes : NeverTwice(n)
    /\ (DestroyerReturns(1) = 1 /\ (decl.isolated => Quiescent)) =>
         \A n \in Nodes : DestroyedOnce(n)

C1_Witness ==
  /\ UniqueChain /\ Len(heap) = MaxChain /\ ~decl.isolated
  /\ NonTrivial \ LinkFields(decl) # {}
  /\ DestroyerReturns(1) = 1
  /\ \A n \in Nodes : DestroyedOnce(n)


\* C2: while a uniquely owned chain is destroyed, at most two instances
\* have a destructor activation on the stack at once (four frames: the
\* deallocating and the destroying form of each), whatever the length of
\* the chain; the successor of the released instance is never among them.
C2_BoundedActivations ==
  UniqueChain =>
    /\ Cardinality(Active) <= 2
    /\ Len(stack) <= 4
    /\ \A k \in DOMAIN stack :
         (k > 2 /\ stack[k].self + 1 \in Nodes) =>
            stack[k].self + 1 \notin Active

C2_Witness ==
  /\ UniqueChain /\ Len(heap) = MaxChain
  /\ Len(stack) = 4 /\ Top.fn = "destroyer" /\ Top.self = MaxChain - 1
  /\ heap[MaxChain].st = "live" /\ heap[MaxChain].rc = 2

\* The log positions of instance n.
Idx(n, P(_)) == {k \in DOMAIN log : log[k].self = n /\ P(log[k])}
BodyIdx(n) == Idx(n, LAMBDA e : e.op = "body")
SuperIdx(n) == Idx(n, LAMBDA e : e.op = "apply" /\ e.q = "superDestroyer")
ResignIdx(n) == Idx(n, LAMBDA e : e.op = "apply" /\ e.q = "resignID")
MemberIdx(n) ==
  Idx(n, LAMBDA e : e.fn = "destroyer" /\ e.base \in {"self", "iter", "link"})
ActorStateIdx(n) == Idx(n, LAMBDA e : e.op = "builtin_destroyDefaultActor")
Before(A, B) == \A j \in A : \A k \in B : j < k

IdProps ==
  {i \in OwnFields : decl.fields[i].name \in {"id", "actorSystem"}}

\* C3: in the destructor of a remote proxy of a distributed actor only the
\* properties named id and actorSystem are addressed and destroyed, the
\* actor state is destroyed only for a root default actor (once, by the
\* time the proxy is freed), and neither the body nor the destroying form
\* nor the isolated deallocator runs.
C3_RemoteProxy ==
  \A n \in Nodes : (IsClass /\ heap[n].remote) =>
    /\ \A k \in DOMAIN log : log[k].self = n =>
         /\ log[k].fn = "deallocator"
         /\ log[k].op \notin {"body", "apply", "load", "store"}
         /\ log[k].base # "" => (log[k].base = "self" /\ log[k].fld \in IdProps)
    /\ ActorStateIdx(n) # {} => decl.isRootDefaultActor
    /\ Cardinality(ActorStateIdx(n)) <= 1
    /\ Frees(n) = 1 =>
         /\ decl.isRootDefaultActor => Cardinality(ActorStateIdx(n)) = 1
         /\ \A i \in IdProps : FieldDestroys(n, i) = 1

C3_Witness ==
  \E n \in Nodes :
    /\ IsClass /\ heap[n].remote /\ Frees(n) = 1
    /\ \E i \in OwnFields : decl.fields[i] = P_tag
    /\ \A i \in IdProps : FieldDestroys(n, i) = 1

\* The properties of instance n destroyed by its destroying form, in the
\* order of their destruction.
DestroySeq(n) ==
  LET es == SelectSeq(log, LAMBDA e : e.op = "destroy_addr" /\ e.base = "self"
                                      /\ e.self = n /\ e.fn = "destroyer")
  IN [k \in DOMAIN es |-> es[k].fld]

Ascending(S) == SelectSeq([i \in 1..Len(decl.fields) |-> i], LAMBDA i : i \in S)

IsPrefix(s, t) == Len(s) <= Len(t) /\ s = SubSeq(t, 1, Len(s))

\* C4: the destroying form of a class without superclass and without
\* Optional<Self> property destroys its non-trivial stored properties one
\* after the other in declaration order, each once and no trivial one, and
\* all of them have been destroyed when it returns.
C4_MembersInOrder ==
  (IsClass /\ ~decl.hasSuperclass /\ LinkFields(decl) = {}) =>
    \A n \in Nodes :
      /\ IsPrefix(DestroySeq(n), Ascending(NonTrivial))
      /\ DestroyerReturns(n) = 1 => DestroySeq(n) = Ascending(NonTrivial)

C4_Witness ==
  /\ IsClass /\ ~decl.hasSuperclass /\ LinkFields(decl) = {}
  /\ DestroyerReturns(1) = 1
  /\ Len(DestroySeq(1)) >= 2
  /\ NonTrivial # OwnFields

\* C5 as stated: the destroying form of a class with a superclass calls
\* the superclass destroyer once, after the body and after the resignID
\* call.
C5_AsStated ==
  \A n \in Nodes :
    (IsClass /\ decl.hasSuperclass /\ DestroyerReturns(n) = 1) =>
      /\ Cardinality(SuperIdx(n)) = 1
      /\ Before(BodyIdx(n), SuperIdx(n))
      /\ Before(ResignIdx(n), SuperIdx(n))

\* C5 amended: the destroying form of a class with a superclass that is
\* not a native NSObject subclass calls the superclass destroyer once on
\* every path that returns: after the body, before the resignID call and
\* before any member is destroyed.
C5_SuperclassDestroyedOnce ==
  \A n \in Nodes :
    (IsClass /\ decl.hasSuperclass /\ ~decl.isNativeNSObjectSubclass) =>
      /\ Cardinality(SuperIdx(n)) <= 1
      /\ DestroyerReturns(n) = 1 => Cardinality(SuperIdx(n)) = 1
      /\ SuperIdx(n) # {} => BodyIdx(n) # {}
      /\ (ResignIdx(n) \cup MemberIdx(n)) # {} => SuperIdx(n) # {}
      /\ Before(BodyIdx(n), SuperIdx(n))
      /\ Before(SuperIdx(n), ResignIdx(n) \cup MemberIdx(n))

C5_Witness ==
  /\ IsClass /\ decl.hasSuperclass /\ ~decl.isNativeNSObjectSubclass
  /\ decl.isDistributedActor
  /\ DestroyerReturns(1) = 1
  /\ Cardinality(SuperIdx(1)) = 1 /\ ResignIdx(1) # {} /\ MemberIdx(1) # {}

\* The instructions of an emitted function.
Instrs(fn) == UNION {Range(code[fn][l]) : l \in DOMAIN code[fn]}

\* C6: for a class with two or more Optional<Self> properties no link is
\* found and no chain loop is emitted, and each of these properties is
\* destroyed by the ordinary destroy, once when the destroying form
\* returns; for every class at most one link is found.  What is emitted
\* does not change while it runs: it is examined before the run starts.
C6_NoPartialOptimization ==
  IsClass =>
    /\ status = "start" => Len(findRecursiveLinks(decl)) <= 1
    /\ Cardinality(LinkFields(decl)) >= 2 =>
         /\ status = "start" =>
              /\ findRecursiveLinks(decl) = <<>>
              /\ \A i \in Instrs("destroyer") :
                   i.base \notin {"iter", "link"}
         /\ LET destroys == {k \in DOMAIN log :
                                /\ log[k].op = "destroy_addr"
                                /\ log[k].base = "self"
                                /\ log[k].fld \in LinkFields(decl)}
                returns == {k \in DOMAIN log : /\ log[k].op = "return"
                                               /\ log[k].fn = "destroyer"}
            IN /\ \A j, k \in destroys :
                    (log[j].self = log[k].self /\ log[j].fld = log[k].fld)
                      => j = k
               /\ \A r \in returns : \A i \in LinkFields(decl) :
                    \E k \in destroys :
                      k < r /\ log[k].self = log[r].self /\ log[k].fld = i

C6_Witness ==
  /\ IsClass /\ Cardinality(LinkFields(decl)) = 2
  /\ Len(heap) = 3 /\ \A n \in Nodes : n > 1 => heap[n].st = "freed"
  /\ \A i \in LinkFields(decl) : FieldDestroys(1, i) = 1
  /\ \E e \in Range(log) : e.op = "destroy_addr" /\ e.self = 1 /\ e.tgt = 3
  /\ DestroyerReturns(1) = 1


\* ------------------------------------------------------------------- C7
\* C7: for an instance that is not a remote proxy and whose deinit is not
\* isolated, running the deallocating form ends in the same state as
\* running the destroying form and freeing the handle it returns: the same
\* heap, the same fields destroyed in the same number, the body run once
\* and the memory freed once.
C7_RoundTrip ==
  (saved.mode = "again" /\ Finished) =>
    /\ Outcome = saved.first
    /\ status = "running" =>
         /\ BodyRuns(1) = 1
         /\ Frees(1) = 1
         /\ heap[1].st = "freed"
         /\ \A i \in NonTrivial \ LinkFields(decl) : FieldDestroys(1, i) = 1

C7_Witness ==
  /\ saved.mode = "again" /\ Finished /\ status = "running"
  /\ Len(heap) >= 2 /\ heap[2].st = "freed"
  /\ \E i \in NonTrivial : FieldDestroys(1, i) = 1
  /\ Outcome = saved.first


\* ------------------------------------------------------------------- C8
AddressEnum == decl.kind = "enum" /\ ~decl.self.isObject

PayloadDestroys(i) ==
  Count(LAMBDA e : e.op = "destroy_addr" /\ e.base = "payload" /\ e.fld = i)

Dispatched == Count(LAMBDA e : e.op = "switch_enum_addr") >= 1

Last(s) == s[Len(s)]

\* C8: for a non-copyable enum held at an address, member destruction
\* dispatches on the tag of the value to one block: the payload of the
\* observed element is destroyed once there, and only if the element has
\* associated values; no payload of another element is destroyed; and the
\* block of every element ends in a branch to the one continuation block.
C8_EnumDispatch ==
  AddressEnum =>
    LET tag == heap[1].tag
        fun == code["deallocator"]
        elems == DOMAIN decl.cases
    IN /\ \A i \in elems :
            /\ EnumBlockNames[i] \in DOMAIN fun
            /\ Last(fun[EnumBlockNames[i]]) = Br("contBlock")
            /\ \A j \in elems : i # j => EnumBlockNames[i] # EnumBlockNames[j]
       /\ \A i \in elems \ {tag} : PayloadDestroys(i) = 0
       /\ PayloadDestroys(tag) <= 1
       /\ ~decl.cases[tag] => PayloadDestroys(tag) = 0
       /\ Count(LAMBDA e : e.op = "switch_enum_addr") <= 1
       /\ (Dispatched /\ stack # <<>>) =>
            Top.blk \in {EnumBlockNames[tag], "contBlock"}
       /\ (Dispatched /\ (stack = <<>> \/ Top.blk = "contBlock")) =>
            /\ PayloadDestroys(tag) = (IF decl.cases[tag] THEN 1 ELSE 0)
            /\ Count(LAMBDA e : e.op = "br") = 1

C8_Witness ==
  /\ AddressEnum /\ Len(decl.cases) = 2
  /\ decl.cases[1] /\ decl.cases[2] /\ heap[1].tag = 2
  /\ stack = <<>> /\ status = "running"
  /\ PayloadDestroys(2) = 1 /\ PayloadDestroys(1) = 0


\* ------------------------------------------------------------------- C9
Terminators ==
  {"br", "cond_br", "switch_enum", "switch_enum_addr", "return",
   "unreachable"}

ReturnsOf(fun) ==
  UNION {{<<l, k>> : k \in {j \in DOMAIN fun[l] : fun[l][j].op = "return"}} :
           l \in DOMAIN fun}

Returned(fn, n) ==
  Count(LAMBDA e : e.op = "return" /\ e.fn = fn /\ e.self = n)

Started(fn, n) == Count(LAMBDA e : e.fn = fn /\ e.self = n) >= 1

\* C9: in the deallocating and the isolating deallocating destructor of a
\* class every path from the entry returns once.  The function of a
\* distributed actor tests for the proxy, its remote and its local block
\* both branch to the finish block, and the finish block is the return;
\* the function of another class, and the isolated deallocator, is one
\* block that ends in the return.  No activation returns twice, and every
\* activation has returned once when nothing is left to run, which every
\* run that does not trap comes to.  What is emitted does not change while
\* it runs: its form is examined before the run starts.
C9_SingleReturn ==
  IsClass =>
    /\ status = "start" =>
       \A fn \in {"deallocator", "isolatedDeallocator"} :
         LET fun == code[fn] IN
           /\ Cardinality(ReturnsOf(fun)) = 1
           /\ \A l \in DOMAIN fun :
                /\ fun[l] # <<>>
                /\ \A k \in DOMAIN fun[l] :
                     fun[l][k].op \in Terminators <=> k = Len(fun[l])
           /\ IF decl.isDistributedActor /\ fn = "deallocator"
              THEN /\ DOMAIN fun = {"entry", "remoteActorDeinitBB",
                                    "localActorDeinitBB", "finishDeinitBB"}
                   /\ Last(fun["entry"]) =
                        CondBr("remoteActorDeinitBB", "localActorDeinitBB")
                   /\ Last(fun["remoteActorDeinitBB"]) = Br("finishDeinitBB")
                   /\ Last(fun["localActorDeinitBB"]) = Br("finishDeinitBB")
                   /\ fun["finishDeinitBB"] = << Ins("return", "", "", 0) >>
              ELSE /\ DOMAIN fun = {"entry"}
                   /\ Last(fun["entry"]) = Ins("return", "", "", 0)
    /\ LET returns == {k \in DOMAIN log :
                          /\ log[k].op = "return"
                          /\ log[k].fn \in {"deallocator",
                                            "isolatedDeallocator"}}
       IN /\ \A j, k \in returns :
               (log[j].fn = log[k].fn /\ log[j].self = log[k].self) => j = k
          /\ Quiescent =>
               \A fn \in {"deallocator", "isolatedDeallocator"} :
                 \A n \in Nodes : Started(fn, n) => Returned(fn, n) = 1
    /\ (status = "running" /\ ~Quiescent) => ENABLED Next

C9_Witness ==
  /\ IsClass /\ decl.isDistributedActor /\ decl.isolated /\ Quiescent
  /\ Len(heap) >= 2 /\ heap[2].remote /\ ~heap[1].remote
  /\ Returned("deallocator", 1) = 1 /\ Returned("isolatedDeallocator", 1) = 1
  /\ Returned("deallocator", 2) = 1


\* ------------------------------------------------------------------ C10
SubmitIdx(n) ==
  {k \in DOMAIN log : /\ log[k].op = "apply" /\ log[k].q = "deinitOnExecutor"
                      /\ log[k].tgt = n}

FreeIdx(n) == {k \in DOMAIN log : log[k].op = "dealloc_ref" /\ log[k].tgt = n}

\* C10: the isolating deallocating form of a local instance submits self
\* and the isolated deallocator to swift_task_deinitOnExecutor once and
\* returns: it frees no memory, and neither the destroying form nor the
\* body runs in it.  With the submitted work run once, the memory of the
\* instance is freed once, by the isolated deallocator, after the
\* submission.
C10_IsolatingForm ==
  (IsClass /\ decl.isolated) =>
    LET submits == {k \in DOMAIN log : /\ log[k].op = "apply"
                                       /\ log[k].q = "deinitOnExecutor"}
        frees == {k \in DOMAIN log : log[k].op = "dealloc_ref"}
        Submitted(n, k) == \E j \in submits : log[j].tgt = n /\ j < k
        Local(n) == n \in Nodes /\ ~heap[n].remote
    IN /\ \A j, k \in submits : log[j].tgt = log[k].tgt => j = k
       /\ \A j \in submits :
            log[j].fn = "deallocator" /\ log[j].self = log[j].tgt
       /\ \A k \in DOMAIN log :
            LET e == log[k] IN
              /\ (e.fn = "deallocator" /\ Local(e.self)) =>
                   /\ e.op \notin {"dealloc_ref", "body", "destroy_addr"}
                   /\ e.op = "apply" => e.q = "deinitOnExecutor"
                   /\ Submitted(e.self, k) => e.op \in {"br", "return"}
                   /\ e.op = "return" => Submitted(e.self, k)
              /\ (e.fn \in {"destroyer", "isolatedDeallocator"}
                     /\ Local(e.self)) => Submitted(e.self, k)
       /\ \A k \in frees : Local(log[k].tgt) =>
            /\ log[k].fn = "isolatedDeallocator"
            /\ Submitted(log[k].tgt, k)
            /\ \A j \in frees : log[j].tgt = log[k].tgt => j = k
       /\ Quiescent =>
            \A n \in Nodes : (Local(n) /\ Started("deallocator", n)) =>
              Frees(n) = 1 /\ heap[n].st = "freed"

C10_Witness ==
  /\ IsClass /\ decl.isolated /\ decl.isDistributedActor /\ Quiescent
  /\ Len(heap) >= 2 /\ \A n \in Nodes : ~heap[n].remote /\ Frees(n) = 1
  /\ \A n \in Nodes : \A j \in SubmitIdx(n) : \A k \in FreeIdx(n) : j < k


\* ------------------------------------------------------------------ C11
\* The stage of the destroying form an executed instruction belongs to:
\* 1 body, 2 superclass destroyer, 3 resignID, 4 members, 5 default actor
\* state, 6 return; 0 for the casts and borrows between them.
Stage(e) ==
  CASE e.op = "body" -> 1
    [] e.op = "apply" /\ e.q = "superDestroyer" -> 2
    [] e.op = "apply" /\ e.q = "resignID" -> 3
    [] e.base \in {"self", "iter", "link"} -> 4
    [] e.op = "builtin_destroyDefaultActor" -> 5
    [] e.op = "return" -> 6
    [] OTHER -> 0

\* The stages the destroying form of instance n has gone through.
StageSeq(n) ==
  LET sel == SelectSeq(log, LAMBDA e : /\ e.fn = "destroyer" /\ e.self = n
                                      /\ Stage(e) > 0)
  IN [k \in DOMAIN sel |-> Stage(sel[k])]

Times(s, v) == Cardinality({k \in DOMAIN s : s[k] = v})

\* C11: in the destroying form the stages come in the order body,
\* superclass destroyer, resignID, members, default actor state, return;
\* and on a path that has returned the body ran once, the superclass
\* destroyer was called once if the class has a superclass and is no native
\* NSObject subclass and not otherwise, resignID once if the class is a
\* distributed actor and not otherwise, the default actor state was
\* destroyed once if the class is a root default actor and not otherwise.
C11_StagesInOrder ==
  IsClass =>
    \A n \in Nodes :
      LET s == StageSeq(n) IN
        /\ \A k \in 1..(Len(s) - 1) : s[k] <= s[k + 1]
        /\ (s # <<>> /\ s[Len(s)] = 6) =>
             /\ Times(s, 1) = 1
             /\ Times(s, 2) = (IF callsSuper(decl) THEN 1 ELSE 0)
             /\ Times(s, 3) = (IF decl.isDistributedActor THEN 1 ELSE 0)
             /\ (Times(s, 4) > 0) <=> (NonTrivial # {})
             /\ Times(s, 5) = (IF decl.isRootDefaultActor THEN 1 ELSE 0)
             /\ Times(s, 6) = 1

C11_Witness ==
  /\ IsClass /\ callsSuper(decl) /\ decl.isDistributedActor
  /\ Cardinality(NonTrivial) >= 3
  /\ LET s == StageSeq(1) IN
       /\ s # <<>> /\ s[Len(s)] = 6
       /\ \A v \in {1, 2, 3, 4, 6} : Times(s, v) >= 1


\* ------------------------------------------------------------------ C12
\* The instances reached from the instances of S through link fields.
RECURSIVE Reach(_)
Reach(S) ==
  LET T == S \cup ({heap[x].link[i] : x \in S, i \in LinkFields(decl)}
                     \cap Nodes)
  IN IF T = S THEN S ELSE Reach(T)

\* The uniqueness tests that failed.
NotUniqueIdx == {k \in DOMAIN log : log[k].op = "is_unique" /\ log[k].rc # 1}

\* The destroying form of instance n is running or has just returned.
InProgress(n) ==
  \/ \E f \in DOMAIN stack : stack[f].fn = "destroyer" /\ stack[f].self = n
  \/ /\ log # <<>> /\ Last(log).op = "return"
     /\ Last(log).fn = "destroyer" /\ Last(log).self = n

\* C12: when the uniqueness test of the node in the working slot fails,
\* the loop stops: the destroying form goes through the not-unique block
\* to the cleanup without reading the link field of the node; the cleanup
\* drops one reference to the node, and the node and every instance
\* reached from it are alive, with no field of theirs destroyed, until
\* the destroying form has returned.
C12_NotUniqueStops ==
  IsClass =>
    \A k \in NotUniqueIdx :
      LET n == log[k].self
          m == log[k].tgt
          later == {j \in DOMAIN log : /\ j > k /\ log[j].self = n
                                       /\ log[j].fn = "destroyer"}
          drops == {j \in later : log[j].tgt = m}
      IN /\ \A j \in later :
              /\ log[j].blk \in {"someBB", "notUniqueBB", "cleanBB"}
              /\ log[j].base # "link" /\ log[j].op \notin {"load", "store"}
         /\ \A j \in drops :
              /\ log[j].op = "destroy_addr" /\ log[j].base = "iter"
              /\ log[j].blk = "cleanBB" /\ log[j].rc = log[k].rc
              /\ j = Len(log) => heap[m].rc = log[k].rc - 1
         /\ Cardinality(drops) <= 1
         /\ (\E j \in later : log[j].op = "return") => Cardinality(drops) = 1
         /\ InProgress(n) =>
              \A r \in Reach({m}) :
                /\ heap[r].st = "live" /\ heap[r].rc >= 1
                /\ \A j \in DOMAIN log : log[j].self # r
                /\ r # m => heap[r].rc = heap[r].rc0

C12_Witness ==
  /\ IsClass /\ Quiescent /\ Len(heap) = 3
  /\ \E k \in NotUniqueIdx :
       /\ log[k].self = 1 /\ log[k].tgt = 2 /\ log[k].rc = 2
       /\ heap[2].rc = 1 /\ heap[2].link[CHOOSE i \in LinkFields(decl) : TRUE] = 3
  /\ heap[1].st = "freed" /\ heap[2].st = "live" /\ heap[3].st = "live"


\* ------------------------------------------------------------------ C13
LoopBlocks == {"loopBB", "someBB", "uniqueBB", "notUniqueBB", "noneBB"}

\* The log positions of the working slot of the destroying form of n.
SlotIdx(n, op) ==
  {k \in DOMAIN log : /\ log[k].self = n /\ log[k].fn = "destroyer"
                      /\ log[k].op = op /\ log[k].base = "iter"}

SlotAllocated(n) == SlotIdx(n, "alloc_stack") # {}
SlotReleased(n) == SlotIdx(n, "dealloc_stack") # {}

ChainLoopOnce ==
  \A n \in Nodes :
    LET allocs == SlotIdx(n, "alloc_stack")
        destroys == SlotIdx(n, "destroy_addr")
        deallocs == SlotIdx(n, "dealloc_stack")
        loop == {k \in DOMAIN log : /\ log[k].self = n
                                    /\ log[k].fn = "destroyer"
                                    /\ log[k].blk \in LoopBlocks}
        exits == {k \in loop : log[k].blk \in {"notUniqueBB", "noneBB"}}
    IN /\ Cardinality(allocs) <= 1 /\ Cardinality(destroys) <= 1
       /\ Cardinality(deallocs) <= 1 /\ Cardinality(exits) <= 1
       /\ Before(allocs, loop) /\ Before(loop, destroys)
       /\ Before(exits, destroys) /\ Before(destroys, deallocs)
       /\ \A k \in exits : log[k].op = "br"
       /\ \A k \in destroys \cup deallocs : log[k].blk = "cleanBB"
       /\ destroys # {} => exits # {} /\ allocs # {}
       /\ deallocs # {} => destroys # {}
       /\ DestroyerReturns(n) >= 1 => deallocs # {}

\* C13: the chain loop of every destroying form ends: the working slot is
\* allocated once, the loop is left once, through the none block or the
\* not-unique block, to the cleanup block, where the slot is destroyed
\* once and then its storage released once; and in the end every slot
\* that was allocated has been released.
C13_LoopTerminates ==
  /\ []ChainLoopOnce
  /\ <>[](\A n \in Nodes : SlotAllocated(n) => SlotReleased(n))

C13_Witness ==
  /\ Len(heap) = 3 /\ Quiescent
  /\ \A n \in {1, 2} : SlotReleased(n)
  /\ \E k \in DOMAIN log : log[k].self = 2 /\ log[k].blk = "notUniqueBB"
  /\ \E k \in DOMAIN log : log[k].self = 1 /\ log[k].blk = "noneBB"


\* ------------------------------------------------------------------ C14
\* The instruction to run belongs to the first step of the chain
\* destruction: var iter = self.link; self.link = nil.
InTransfer ==
  /\ Running /\ Top.fn = "destroyer" /\ Top.blk = "entry"
  /\ \/ Cur.base = "iter"
     \/ Cur.base = "self" /\ Cur.fld \in LinkFields(decl)

\* The destroying form on top enters the loop for the first time.
EntersLoop ==
  /\ Running /\ Top.fn = "destroyer" /\ Top.blk = "loopBB"
  /\ Last(log).blk = "entry" /\ Last(log).self = Top.self

Transferred ==
  /\ EntersLoop =>
       LET n == Top.self
           takes == {k \in DOMAIN log : /\ log[k].self = n
                                        /\ log[k].op = "load"
                                        /\ log[k].q = "take"}
       IN /\ Cardinality(takes) = 1
          /\ \A k \in takes :
               /\ log[k].base = "self" /\ log[k].fld \in LinkFields(decl)
               /\ Top.slot = log[k].tgt
               /\ heap[n].link[log[k].fld] = 0
               /\ log[k].tgt >= 1 => heap[log[k].tgt].rc = log[k].rc
  /\ \A n \in Nodes : \A i \in LinkFields(decl) :
       /\ FieldDestroys(n, i) = 0
       /\ (\E k \in SlotIdx(n, "store") : log[k].q = "init") =>
            heap[n].link[i] = 0

\* C14: the first step of the chain destruction moves the link of self
\* into the working slot: when the loop is entered the link field holds
\* none and the slot holds what the field held; no instruction of the
\* step changes a reference count or the life of an instance; and the
\* field is not destroyed afterwards.
C14_LinkMoved ==
  /\ []Transferred
  /\ [][InTransfer =>
          \A x \in Nodes : heap'[x].rc = heap[x].rc /\ heap'[x].st = heap[x].st]_vars

C14_Witness ==
  /\ EntersLoop /\ Top.self = 2 /\ Top.slot = 3
  /\ heap[2].link = <<0>> /\ heap[3].rc = 2 /\ heap[3].st = "live"


\* ------------------------------------------------------------------ C15
\* The functions emitted for the declaration.
EmittedFunctions == IF IsClass THEN Functions ELSE {"deallocator"}

SameAddress(i, j) == i.base = j.base /\ i.fld = j.fld

\* In the emitted code every destroy_addr of one of the bases stands
\* between the begin_access and the end_access of its address, and every
\* access region is closed in its block before another one is opened; in
\* every run an activation has at most one region open, the one of the
\* address it destroys, and none when it returns.
AccessScoped(bases) ==
  /\ status = "start" =>
       \A fn \in EmittedFunctions : \A l \in DOMAIN code[fn] :
         LET blk == code[fn][l] IN
           \A k \in DOMAIN blk :
             /\ (blk[k].op = "destroy_addr" /\ blk[k].base \in bases) =>
                  /\ k > 1 /\ k < Len(blk)
                  /\ blk[k - 1].op = "begin_access"
                  /\ blk[k + 1].op = "end_access"
                  /\ SameAddress(blk[k - 1], blk[k])
                  /\ SameAddress(blk[k + 1], blk[k])
             /\ blk[k].op = "begin_access" =>
                  \E j \in DOMAIN blk :
                    /\ j > k /\ blk[j].op = "end_access"
                    /\ SameAddress(blk[j], blk[k])
                    /\ \A i \in (k + 1)..(j - 1) :
                         blk[i].op \notin {"begin_access", "end_access"}
             /\ blk[k].op = "end_access" =>
                  \E j \in DOMAIN blk :
                    /\ j < k /\ blk[j].op = "begin_access"
                    /\ SameAddress(blk[j], blk[k])
                    /\ \A i \in (j + 1)..(k - 1) :
                         blk[i].op \notin {"begin_access", "end_access"}
  /\ \A f \in DOMAIN stack : Len(stack[f].acc) <= 1
  /\ AtOp({"return"}) => Top.acc = <<>>
  /\ (AtOp({"destroy_addr"}) /\ Cur.base \in bases) =>
       Top.acc = << <<Cur.base, Cur.fld>> >>

\* C15 as stated: the destroys of class members, of struct members and of
\* enum payloads all lie in an access region of their own.
C15_AsStated == AccessScoped({"self", "value", "payload"})

\* C15: every destroy_addr of a class member and of a struct member lies
\* in an access region opened right before it and closed right after it;
\* the destroy_addr of an enum payload follows the projection of the
\* payload and lies in no access region; regions do not nest and none is
\* open at a return.
C15_MembersInAccess ==
  /\ AccessScoped({"self", "value"})
  /\ (AtOp({"destroy_addr"}) /\ Cur.base = "payload") =>
       /\ Top.acc = <<>>
       /\ Top.pc > 1
       /\ code[Top.fn][Top.blk][Top.pc - 1].op =
            "unchecked_take_enum_data_addr"

C15_Witness ==
  /\ decl.kind = "struct" /\ AtOp({"destroy_addr"})
  /\ Cur.base = "value" /\ Cur.fld = 2
  /\ Top.acc = << <<"value", 2>> >>
  /\ Count(LAMBDA e : e.op = "destroy_addr") = 1

\* The operations of the local path of the deallocating form of a class,
\* in the order of their emission.
LocalDealloc ==
  << <<"begin_borrow", "">>, <<"apply", "destroyer">>, <<"end_borrow", "">>,
     <<"end_lifetime", "">>, <<"unchecked_ref_cast", "class">>,
     <<"dealloc_ref", "handle">> >>

\* The deallocating form of the class: the deallocator of a deinit that
\* is not isolated, the isolated deallocator of one that is.
InDeallocatingForm(e) ==
  \/ e.fn = "isolatedDeallocator"
  \/ e.fn = "deallocator" /\ ~decl.isolated

\* Those operations as the deallocating form of instance n has executed
\* them outside the block of the remote proxy.
DeallocSeq(n) ==
  LET es == SelectSeq(log, LAMBDA e :
                /\ e.self = n /\ InDeallocatingForm(e)
                /\ e.blk # "remoteActorDeinitBB"
                /\ <<e.op, e.q>> \in Range(LocalDealloc))
  IN [k \in DOMAIN es |-> <<es[k].op, es[k].q>>]

\* C16: on the local path the deallocating form of a class begins the
\* borrow of self, applies the destroying form to the same instance, ends
\* the borrow, ends the lifetime of the owned self, casts the handle and
\* frees the memory, in this order and each once; all six have happened
\* when it returns, and the instance freed is the one the destroying form
\* has returned before.
C16_DeallocatingOrder ==
  IsClass => \A n \in Nodes :
    /\ IsPrefix(DeallocSeq(n), LocalDealloc)
    /\ \A k \in DOMAIN log :
         (log[k].self = n /\ InDeallocatingForm(log[k])) =>
           /\ (log[k].op = "apply" /\ log[k].q = "destroyer"
               /\ k < Len(log)) =>
                /\ log[k + 1].fn = "destroyer"
                /\ log[k + 1].self = n
                /\ log[k + 1].depth = log[k].depth + 1
           /\ (log[k].op = "dealloc_ref" /\ log[k].q = "handle") =>
                /\ log[k].tgt = n
                /\ \E j \in 1..(k - 1) :
                     /\ log[j].op = "return" /\ log[j].fn = "destroyer"
                     /\ log[j].tgt = n
           /\ (log[k].op = "return" /\ ~heap[n].remote) =>
                DeallocSeq(n) = LocalDealloc

C16_Witness ==
  /\ IsClass /\ Len(heap) >= 2 /\ Quiescent
  /\ \A n \in Nodes : DeallocSeq(n) = LocalDealloc

\* The positions of the precondition in the emitted functions.
ExecutorChecks ==
  UNION {{<<fn, l, i>> : i \in {j \in DOMAIN code[fn][l] :
                           code[fn][l][j].op = "precondition_check_executor"}}
         : <<fn, l>> \in UNION {{<<f, b>> : b \in DOMAIN code[f]}
                                : f \in Functions}}

\* The precondition has failed: it is the last instruction executed.
CheckFailed ==
  /\ status = "trapped" /\ log # <<>>
  /\ log[Len(log)].op = "precondition_check_executor"

\* C17: the destroying form of a deinit whose isolation has an executor
\* starts with the precondition, which every activation executes right
\* before the body; when the precondition fails the program is stopped
\* and the activation has executed neither the body nor the superclass
\* destroyer nor a destroy nor a return; without an executor no
\* precondition is emitted.
C17_ExecutorCheck ==
  /\ status = "start" =>
       ExecutorChecks = IF decl.isolated THEN {<<"destroyer", "entry", 1>>}
                        ELSE {}
  /\ \A k \in DOMAIN log :
       (log[k].op = "body" /\ log[k].fn = "destroyer" /\ decl.isolated) =>
          /\ k > 1
          /\ log[k - 1].op = "precondition_check_executor"
          /\ log[k - 1].self = log[k].self
          /\ log[k - 1].depth = log[k].depth
  /\ CheckFailed =>
       LET n == log[Len(log)].self IN
         /\ ~ENABLED NextExecutor
         /\ Top.fn = "destroyer" /\ ~Top.onExec
         /\ \A k \in DOMAIN log : log[k].self = n =>
              /\ log[k].op \notin {"body", "destroy_addr", "return", "load",
                                   "store", "dealloc_ref"}
              /\ log[k].op = "apply" => log[k].q # "superDestroyer"

C17_Witness ==
  /\ CheckFailed /\ decl.hasSuperclass /\ ~decl.isNativeNSObjectSubclass
  /\ NonTrivial # {}

\* The instructions of the deallocating form of a value type, block by
\* block, and the positions in the log of the operations in ops.
IsValue == decl.kind \in {"struct", "enum"}
ValueInstrs(ops) ==
  UNION {{<<l, i>> : i \in {j \in DOMAIN code["deallocator"][l] :
                              code["deallocator"][l][j].op \in ops}}
         : l \in DOMAIN code["deallocator"]}
LogIdx(ops) == {k \in DOMAIN log : log[k].op \in ops}

MemberOps ==
  {"struct_element_addr", "unchecked_take_enum_data_addr", "begin_access",
   "destroy_addr", "switch_enum_addr"}

\* C18: the deallocating form of a value type creates the drop marker
\* once when the incoming value is not the result of one and never when
\* it is, so that the value destroyed has been marked exactly once; the
\* marker precedes the destruction of every member and payload; a marked
\* value that is an object is destroyed by one destroy_value and no
\* field or case of it is addressed.
C18_DropMarkerOnce ==
  IsValue =>
    LET drops == LogIdx({"drop_deinit"})
        destroys == LogIdx(MemberOps \cup {"destroy_value"})
        marked == (IF decl.self.isDrop THEN 1 ELSE 0) + Cardinality(drops)
    IN /\ status = "start" =>
            /\ ValueInstrs({"drop_deinit"}) =
                 IF decl.self.isDrop THEN {} ELSE {<<"entry", 2>>}
            /\ \A p \in ValueInstrs(MemberOps \cup {"destroy_value"}) :
                 (p[1] = "entry" /\ ~decl.self.isDrop) => p[2] > 2
            /\ IF decl.self.isObject
               THEN /\ Cardinality(ValueInstrs({"destroy_value"})) = 1
                    /\ ValueInstrs(MemberOps) = {}
               ELSE ValueInstrs({"destroy_value"}) = {}
       /\ marked <= 1
       /\ destroys # {} => marked = 1 /\ Before(drops, destroys)
       /\ LogIdx({"return"}) # {} =>
            /\ marked = 1
            /\ decl.self.isObject =>
                 /\ Cardinality(LogIdx({"destroy_value"})) = 1
                 /\ LogIdx(MemberOps) = {}

C18_Witness ==
  /\ decl.kind = "enum" /\ ~decl.self.isDrop /\ ~decl.self.isObject
  /\ Quiescent
  /\ Cardinality(LogIdx({"drop_deinit"})) = 1
  /\ Cardinality(LogIdx({"destroy_addr"})) = 1

\* The fields of the struct destroyed by its deallocating form, in the
\* order of their destruction.
StructDestroySeq ==
  LET es == SelectSeq(log, LAMBDA e : e.op = "destroy_addr"
                                      /\ e.base = "value")
  IN [k \in DOMAIN es |-> es[k].fld]

\* C19: the deallocating form of a struct held at an address destroys the
\* stored fields of non-trivial type one after the other in declaration
\* order, each once, and addresses no field of trivial type; the destroys
\* follow the body and precede the return, which is executed once with
\* all of them done.
C19_StructMembers ==
  (decl.kind = "struct" /\ ~decl.self.isObject) =>
    LET destroys == LogIdx({"destroy_addr"})
        returns == LogIdx({"return"})
    IN /\ IsPrefix(StructDestroySeq, Ascending(NonTrivial))
       /\ \A k \in DOMAIN log :
            log[k].base = "value" => log[k].fld \in NonTrivial \cup {0}
       /\ Before(LogIdx({"body"}), destroys)
       /\ Before(destroys, returns)
       /\ Cardinality(returns) <= 1
       /\ returns # {} =>
            /\ StructDestroySeq = Ascending(NonTrivial)
            /\ Cardinality(LogIdx({"body"})) = 1
            /\ stack = <<>>

C19_Witness ==
  /\ decl.kind = "struct" /\ ~decl.self.isObject /\ Quiescent
  /\ decl.fields = <<P_tag, P_payload>>
  /\ StructDestroySeq = <<1, 2>>
  /\ Cardinality(LogIdx({"return"})) = 1

\* C20: the default actor state of an instance is destroyed only for a
\* root default actor class and at most once; by the destroying form
\* after every member destruction of the instance, the chain loop
\* included, and before its return, which finds it destroyed once; by
\* the block of the remote proxy after the destroys of id and actorSystem
\* and before the free, which finds it destroyed once.
C20_ActorStateOnce ==
  IsClass => \A n \in Nodes :
    LET state == ActorStateIdx(n)
        members == MemberIdx(n)
        returns == Idx(n, LAMBDA e : e.op = "return" /\ e.fn = "destroyer")
        frees == {k \in DOMAIN log : log[k].op = "dealloc_ref"
                                     /\ log[k].tgt = n}
    IN /\ state # {} => decl.isRootDefaultActor
       /\ Cardinality(state) <= 1
       /\ \A k \in state :
            IF log[k].fn = "destroyer"
            THEN /\ ~heap[n].remote
                 /\ Before(members, {k})
                 /\ Before({k}, returns)
            ELSE /\ heap[n].remote
                 /\ log[k].blk = "remoteActorDeinitBB"
                 /\ \A i \in IdProps :
                      \E j \in 1..(k - 1) :
                        /\ log[j].op = "destroy_addr" /\ log[j].self = n
                        /\ log[j].base = "self" /\ log[j].fld = i
                 /\ Before({k}, frees)
       /\ (decl.isRootDefaultActor /\ (returns # {} \/ frees # {})) =>
            Cardinality(state) = 1

C20_Witness ==
  /\ IsClass /\ decl.isRootDefaultActor /\ Len(heap) = MaxChain
  /\ NonTrivial \ LinkFields(decl) # {}
  /\ Quiescent
  /\ \A n \in Nodes : Cardinality(ActorStateIdx(n)) = 1 /\ Frees(n) = 1

\* C21: resignID is called only for a local instance of a distributed
\* actor, at most once, after the body and before any member of the
\* instance is addressed; it has been called once when the destroying
\* form returns, whether the deallocating or the isolating form led to
\* it, and it is never called for a remote proxy, whose destruction ends
\* with the free.
C21_ResignOnce ==
  IsClass => \A n \in Nodes :
    LET resigns == ResignIdx(n)
        bodies == BodyIdx(n)
        members == MemberIdx(n)
    IN /\ resigns # {} =>
            /\ decl.isDistributedActor /\ ~heap[n].remote
            /\ bodies # {}
            /\ \A k \in resigns : log[k].fn = "destroyer"
       /\ Cardinality(resigns) <= 1
       /\ Before(bodies, resigns)
       /\ Before(resigns, members)
       /\ (decl.isDistributedActor /\ members # {}) => resigns # {}
       /\ (decl.isDistributedActor /\ DestroyerReturns(n) = 1) =>
            Cardinality(resigns) = 1
       /\ (heap[n].remote /\ Frees(n) = 1) => resigns = {}

C21_Witness ==
  /\ IsClass /\ decl.isDistributedActor /\ decl.isolated /\ Quiescent
  /\ \E n \in Nodes : heap[n].remote /\ Frees(n) = 1 /\ ResignIdx(n) = {}
  /\ ~heap[1].remote /\ Frees(1) = 1
  /\ Cardinality(ResignIdx(1)) = 1 /\ MemberIdx(1) # {}

\* The positions in the log at which the destroying form of instance n
\* addresses a stored property other than the link, and those at which
\* it runs the chain destruction of the link.
OrdinaryIdx(n, lk) ==
  Idx(n, LAMBDA e : e.fn = "destroyer" /\ e.base = "self" /\ e.fld # lk)
ChainIdx(n, lk) ==
  Idx(n, LAMBDA e : /\ e.fn = "destroyer"
                    /\ \/ e.base \in {"iter", "link"}
                       \/ e.base = "self" /\ e.fld = lk)

\* C22: in a class with exactly one Optional<Self> stored property the
\* link is neither destroyed in place nor opened for a deinit access; the
\* other non-trivial properties are destroyed in declaration order, all
\* of them before the chain destruction of the link starts, wherever the
\* link is declared, and the default actor state is destroyed after the
\* chain destruction has released its slot.
C22_LinkLast ==
  (IsClass /\ Cardinality(LinkFields(decl)) = 1) =>
    LET lk == CHOOSE i \in LinkFields(decl) : TRUE
        others == Ascending(NonTrivial \ {lk})
    IN \A n \in Nodes :
         LET chain == ChainIdx(n, lk)
             state == {k \in ActorStateIdx(n) : log[k].fn = "destroyer"}
         IN /\ \A k \in chain :
                 /\ log[k].op # "destroy_addr" \/ log[k].base = "iter"
                 /\ log[k].op = "begin_access" => log[k].q # "deinit"
            /\ IsPrefix(DestroySeq(n), others)
            /\ Before(OrdinaryIdx(n, lk), chain)
            /\ chain # {} => DestroySeq(n) = others
            /\ Before(chain, state)
            /\ state # {} =>
                 \E k \in chain : log[k].op = "dealloc_stack"

C22_Witness ==
  /\ IsClass /\ decl.isRootDefaultActor /\ Quiescent
  /\ decl.fields = <<P_next, P_tag>>
  /\ Len(heap) = MaxChain
  /\ \A n \in Nodes : /\ DestroySeq(n) = <<2>>
                      /\ Cardinality(ActorStateIdx(n)) = 1

\* The position of the one instruction with operation op and base base in
\* the block of the unique branch (0: there is none).
UniquePos(op, base) ==
  LET blk == code["destroyer"]["uniqueBB"]
      at == {i \in DOMAIN blk : blk[i].op = op /\ blk[i].base = base}
  IN IF Cardinality(at) = 1 THEN CHOOSE i \in at : TRUE ELSE 0

\* The instance an instruction addresses is not freed.
BaseAlive ==
  (Running /\ Cur.base \in {"self", "link"}) =>
     Base \in Nodes /\ heap[Base].st # "freed"

\* C23: the chain loop reads the link of a node only in the unique branch,
\* in a borrow of the working slot, which holds the one reference to that
\* node; the store [assign] that releases the reference comes after the
\* end of the access and of the borrow; every slot that holds a node
\* holds a live one, and no instruction addresses a freed instance.
C23_NoFreedNode ==
  (IsClass /\ Cardinality(LinkFields(decl)) = 1) =>
    /\ (status = "start" /\ decl.bodyReturns) =>
         /\ \A l \in DOMAIN code["destroyer"] :
              \A i \in DOMAIN code["destroyer"][l] :
                code["destroyer"][l][i].base = "link" => l = "uniqueBB"
         /\ 0 < UniquePos("load_borrow", "iter")
         /\ UniquePos("load_borrow", "iter") < UniquePos("load", "link")
         /\ UniquePos("load", "link") < UniquePos("end_access", "link")
         /\ UniquePos("end_access", "link") < UniquePos("end_borrow", "iter")
         /\ UniquePos("end_borrow", "iter") < UniquePos("store", "iter")
    /\ BaseAlive
    /\ \A f \in DOMAIN stack :
         stack[f].slot >= 1 =>
            /\ heap[stack[f].slot].st = "live"
            /\ heap[stack[f].slot].rc >= 1
    /\ (AtOp({"load"}) /\ Cur.base = "link") =>
         /\ Top.blk = "uniqueBB"
         /\ Top.slot \in Nodes
         /\ heap[Top.slot].st = "live" /\ heap[Top.slot].rc = 1
         /\ Top.acc = << <<"link", Cur.fld>> >>
    /\ (AtOp({"store"}) /\ Cur.q = "assign") =>
         /\ Top.acc = <<>>
         /\ log[Len(log)].op = "end_borrow"
         /\ log[Len(log)].depth = Len(stack)
         /\ heap[Top.slot].st = "live"
         /\ Top.val >= 1 =>
              heap[Top.val].st = "live" /\ heap[Top.val].rc >= 2

C23_Witness ==
  /\ IsClass /\ Cardinality(LinkFields(decl)) = 1 /\ Len(heap) = MaxChain
  /\ AtOp({"store"}) /\ Cur.q = "assign"
  /\ Top.self = 1 /\ Top.slot = 2 /\ Top.val = 3
  /\ heap[2].rc = 1 /\ heap[3].rc = 2

\* The operations of the instructions of function fn, block by block.
OpsOf(fn) ==
  [l \in DOMAIN code[fn] |->
     [i \in DOMAIN code[fn][l] |-> code[fn][l][i].op]]

\* C24: for an isolated deinit of a distributed actor the isolating form
\* holds the one remote test, and the isolated deallocator is the local
\* path alone, one block with one free; an instance is tested at most
\* once, by the isolating form, and freed at most once, after its test;
\* the isolated deallocator runs only for a local instance that was
\* tested and submitted.
C24_OneRemoteTest ==
  (IsClass /\ decl.isolated /\ decl.isDistributedActor) =>
    /\ status = "start" =>
         /\ OpsOf("isolatedDeallocator") =
              [entry |-> << "function_ref", "begin_borrow", "apply",
                            "end_borrow", "end_lifetime",
                            "unchecked_ref_cast", "dealloc_ref", "return" >>]
         /\ SubSeq(OpsOf("deallocator")["entry"], 1, 2) =
              << "is_remote", "cond_br" >>
         /\ \A l \in DOMAIN code["deallocator"] :
              \A i \in DOMAIN code["deallocator"][l] :
                code["deallocator"][l][i].op = "is_remote" =>
                   l = "entry" /\ i = 1
    /\ \A n \in Nodes :
         LET tests == Idx(n, LAMBDA e : e.op = "is_remote")
             frees == {k \in DOMAIN log : log[k].op = "dealloc_ref"
                                          /\ log[k].tgt = n}
             isolated == Idx(n, LAMBDA e : e.fn = "isolatedDeallocator")
         IN /\ Cardinality(tests) <= 1
            /\ Cardinality(frees) <= 1
            /\ \A k \in tests : log[k].fn = "deallocator"
            /\ frees # {} => tests # {} /\ Before(tests, frees)
            /\ isolated # {} =>
                 /\ ~heap[n].remote
                 /\ tests # {} /\ Before(tests, isolated)
                 /\ \E j \in DOMAIN log :
                      /\ log[j].op = "apply" /\ log[j].q = "deinitOnExecutor"
                      /\ log[j].self = n /\ Before({j}, isolated)
            /\ \A k \in isolated : log[k].blk = "entry"

C24_Witness ==
  /\ IsClass /\ decl.isolated /\ decl.isDistributedActor /\ Quiescent
  /\ Len(heap) >= 2
  /\ \E n \in Nodes : heap[n].remote
  /\ \A n \in Nodes :
       /\ Frees(n) = 1
       /\ Count(LAMBDA e : e.op = "is_remote" /\ e.self = n) = 1

\* C25: the destroying form of a class whose body has no normal exit is
\* the executor precondition, if there is one, and the body with the
\* terminator that ends it, in one block: no superclass destroyer, no
\* resignID, no member destruction, no return; an activation of it stops
\* at the end of the body and has executed none of these.
C25_NoEpilog ==
  (IsClass /\ ~decl.bodyReturns) =>
    /\ status = "start" =>
         OpsOf("destroyer") =
           [entry |-> (IF decl.isolated
                       THEN << "precondition_check_executor" >>
                       ELSE <<>>) \o << "body", "unreachable" >>]
    /\ \A k \in DOMAIN log : log[k].fn = "destroyer" =>
         /\ log[k].op \in {"precondition_check_executor", "body",
                           "unreachable"}
         /\ log[k].op = "body" =>
              \A j \in (k + 1)..Len(log) :
                log[j].op = "unreachable" /\ log[j].self = log[k].self
         /\ log[k].op = "unreachable" =>
              /\ k = Len(log) /\ status = "trapped"
              /\ log[k - 1].op = "body"
    /\ \A n \in Nodes :
         /\ DestroyerReturns(n) = 0
         /\ SuperIdx(n) = {} /\ ResignIdx(n) = {} /\ MemberIdx(n) = {}
         /\ ActorStateIdx(n) # {} => heap[n].remote

C25_Witness ==
  /\ IsClass /\ ~decl.bodyReturns /\ status = "trapped"
  /\ decl.hasSuperclass /\ ~decl.isNativeNSObjectSubclass
  /\ decl.isDistributedActor /\ ~heap[1].remote
  /\ NonTrivial # {}
  /\ BodyRuns(1) = 1
  /\ log[Len(log)].op = "unreachable"

====
